---- MODULE Spec2Model ----
(***************************************************************************)
(* Model of the CodeSonar hub client front ends:                           *)
(*   - the hub CLI           (src/src/cs_hub_client_exec.ts, main)         *)
(*   - the HTTP CLI          (src/unnamed/part_002, main)                  *)
(*   - the editor commands   (src/unnamed/part_000,                        *)
(*                            executeCodeSonar{Full,Diff}SarifDownload)    *)
(* The hub client itself (cs_hub_client.ts) is not among the sources; its  *)
(* sign-in state machine is modelled from the specification, section 4.4.  *)
(*                                                                         *)
(* Strings whose characters the code inspects (command-line arguments,     *)
(* file paths) are sequences of one-character strings.  The JavaScript     *)
(* value undefined is the one-element sequence U.                          *)
(***************************************************************************)
EXTENDS Integers, Sequences, FiniteSets, TLC

\* ------------------------------------------------------------------ bounds
\* Largest number of command-line arguments after the program name.
MaxArgs == 4
\* Largest number of pieces a configured certificate path is built from.
MaxPieces == 3
\* Largest number of records a hub listing returns.
MaxList == 2
\* The chunks of a response body the model lets through before its end.
MaxChunks == 2
\* The signIn() calls a caller of the session makes, the fetch calls the session
\* accepts, and the fetch calls it refuses.
MaxSignIns == 2
MaxFetches == 1
MaxRefusals == 3
\* Longest string handed to replaceInvalidFileNameChars.
MaxName == 3
\* Longest chunk readTextStream is handed, in units, and the largest maxLength.
MaxChunkLen == 2
MaxLimit == 3

\* ----------------------------------------------------------------- strings
U == <<"<undefined>">>

\* String.prototype.startsWith / endsWith
StartsWith(s, p) == Len(s) >= Len(p) /\ SubSeq(s, 1, Len(p)) = p
EndsWith(s, p) == Len(s) >= Len(p) /\ SubSeq(s, Len(s) - Len(p) + 1, Len(s)) = p
\* s.substring(0, n)
Substring0(s, n) == SubSeq(s, 1, n)
\* JavaScript truthiness of a string|undefined value
Falsy(s) == s = U \/ s = <<>>

S_dash == <<"-">>
S_cacert == <<"-","-","c","a","c","e","r","t">>
S_hubuser1 == <<"-","h","u","b","u","s","e","r">>
S_hubuser2 == <<"-">> \o S_hubuser1
S_hubpwfile1 == <<"-","h","u","b","p","w","f","i","l","e">>
S_hubpwfile2 == <<"-">> \o S_hubpwfile1
S_hubcert1 == <<"-","h","u","b","c","e","r","t">>
S_hubcert2 == <<"-">> \o S_hubcert1
S_hubkey1 == <<"-","h","u","b","k","e","y">>
S_hubkey2 == <<"-">> \o S_hubkey1
S_unknown == <<"-","x">>
S_host == <<"h">>
S_url == <<"u",":">>
S_prog == <<"m","a","i","n">>

\* The arguments the command lines are built from.
ArgTokens ==
    { S_cacert, S_hubuser1, S_hubpwfile2, S_hubcert2, S_hubkey1,
      S_unknown, S_host, S_url, <<>> }

RECURSIVE SeqsUpTo(_, _)
SeqsUpTo(S, n) ==
    IF n = 0 THEN { <<>> }
    ELSE LET shorter == SeqsUpTo(S, n - 1)
         IN  shorter \cup { Append(s, x) : s \in shorter, x \in S }

\* ---------------------------------------------------------- CLI: parsing
NoError == [text |-> "", arg |-> U]
ErrMsg(t, a) == [text |-> t, arg |-> a]

HubParseInit ==
    [ errorMessage |-> NoError, hubAddress |-> U, targetUrlString |-> U,
      cacertFilePath |-> U, userName |-> U, userPasswordFilePath |-> U,
      userCertFilePath |-> U, userKeyFilePath |-> U ]

\* One iteration of the option loop of the hub CLI: the state after argv[i]
\* (1-based; argv[1] is the program name) and the index of the next argument.
HubParseStepBroken(av, i, st) ==
    LET arg == av[i]
        val(f) == IF i + 1 <= Len(av) THEN [st EXCEPT ![f] = av[i + 1]] ELSE st
    IN  IF arg = S_cacert THEN <<val("cacertFilePath"), i + 2>>
        ELSE IF arg = S_hubuser1 \/ arg = S_hubuser2 THEN <<val("userName"), i + 2>>
        ELSE IF arg = S_hubpwfile1 \/ arg = S_hubpwfile2
             THEN <<val("userPasswordFilePath"), i + 2>>
        ELSE IF arg = S_hubcert1 \/ arg = S_hubcert2
             THEN <<val("userCertFilePath"), i + 2>>
        ELSE IF arg = S_hubkey1 \/ arg = S_hubkey2 THEN <<val("userKeyFilePath"), i + 2>>
        ELSE IF st.hubAddress = U THEN <<[st EXCEPT !.hubAddress = arg], i + 1>>
        ELSE IF st.targetUrlString = U
             THEN <<[st EXCEPT !.targetUrlString = arg], i + 1>>
        ELSE <<[st EXCEPT !.errorMessage = ErrMsg("Unexpected argument", arg)], i + 1>>

HubParseStep(av, i, st) ==
    LET arg == av[i]
        val(f) == IF i + 1 <= Len(av) THEN [st EXCEPT ![f] = av[i + 1]] ELSE st
    IN  IF arg = S_cacert THEN <<val("cacertFilePath"), i + 2>>
        ELSE IF arg = S_hubuser1 \/ arg = S_hubuser2 THEN <<val("userName"), i + 2>>
        ELSE IF arg = S_hubpwfile1 \/ arg = S_hubpwfile2
             THEN <<val("userPasswordFilePath"), i + 2>>
        ELSE IF arg = S_hubcert1 \/ arg = S_hubcert2
             THEN <<val("userCertFilePath"), i + 2>>
        ELSE IF arg = S_hubkey1 \/ arg = S_hubkey2 THEN <<val("userKeyFilePath"), i + 2>>
        ELSE IF StartsWith(arg, S_dash)
             THEN <<[st EXCEPT !.errorMessage = ErrMsg("Unrecognized option", arg)], i + 1>>
        ELSE IF st.hubAddress = U THEN <<[st EXCEPT !.hubAddress = arg], i + 1>>
        ELSE IF st.targetUrlString = U
             THEN <<[st EXCEPT !.targetUrlString = arg], i + 1>>
        ELSE <<[st EXCEPT !.errorMessage = ErrMsg("Unexpected argument", arg)], i + 1>>

RECURSIVE HubParseLoop(_, _, _)
HubParseLoop(av, i, st) ==
    IF st.errorMessage # NoError \/ i > Len(av) THEN st
    ELSE LET r == HubParseStep(av, i, st) IN HubParseLoop(av, r[2], r[1])

\* The parse and the two missing-argument checks of the hub CLI.
HubParse(av) ==
    LET st == HubParseLoop(av, 2, HubParseInit)
        s1 == IF st.errorMessage = NoError /\ Falsy(st.hubAddress)
              THEN [st EXCEPT !.errorMessage = ErrMsg("Missing Hub Address argument.", U)]
              ELSE st
    IN  IF s1.errorMessage = NoError /\ Falsy(s1.targetUrlString)
        THEN [s1 EXCEPT !.errorMessage = ErrMsg("Missing URL argument.", U)]
        ELSE s1

HttpParseInit ==
    [ errorMessage |-> NoError, targetUrlString |-> U, cacertFilePath |-> U ]

HttpParseStep(av, i, st) ==
    LET arg == av[i]
    IN  IF arg = S_cacert
        THEN <<IF i + 1 <= Len(av) THEN [st EXCEPT !.cacertFilePath = av[i + 1]] ELSE st,
               i + 2>>
        ELSE IF StartsWith(arg, S_dash)
             THEN <<[st EXCEPT !.errorMessage = ErrMsg("Unrecognized option", arg)], i + 1>>
        ELSE IF st.targetUrlString = U
             THEN <<[st EXCEPT !.targetUrlString = arg], i + 1>>
        ELSE <<[st EXCEPT !.errorMessage = ErrMsg("Unexpected argument", arg)], i + 1>>

RECURSIVE HttpParseLoop(_, _, _)
HttpParseLoop(av, i, st) ==
    IF st.errorMessage # NoError \/ i > Len(av) THEN st
    ELSE LET r == HttpParseStep(av, i, st) IN HttpParseLoop(av, r[2], r[1])

HttpParse(av) ==
    LET st == HttpParseLoop(av, 2, HttpParseInit)
    IN  IF st.errorMessage = NoError /\ Falsy(st.targetUrlString)
        THEN [st EXCEPT !.errorMessage = ErrMsg("Missing URL argument.", U)]
        ELSE st


\* ------------------------------------------------------- hub client values
\* What signIn() resolves with.  The hub CLI declares it string|undefined (a
\* rejection message), the editor command declares it boolean.
V_undefined == "undefined"
V_empty == "''"
V_message == "'Forbidden'"
V_true == "true"
V_false == "false"
\* JavaScript truthiness of such a value: if (message), if (!signInSucceeded)
Truthy(v) == v \in { V_message, V_true }

\* The values a settled sign-in request may resolve with, in either result shape.
SignInResults(outcome, shape) ==
    IF shape = "message"
    THEN (IF outcome = "ok" THEN { V_undefined, V_empty } ELSE { V_message })
    ELSE (IF outcome = "ok" THEN { V_true } ELSE { V_false })

NoCall == [op |-> "none", stage |-> "none", settled |-> "none", value |-> V_undefined,
           list |-> <<>>, error |-> "none"]

NoOpts ==
    [ cafile |-> U, hubuser |-> U, hubpwfile |-> U, hubcert |-> U, hubkey |-> U,
      hubpasswd |-> FALSE ]

\* ------------------------------------------------------------------- state
VARIABLES
    fe,         \* the front end that runs: "hubcli", "httpcli", "full", "diff", "fn"
    argv,       \* CLI: the argument vector, argv[1] the program name
    cfg,        \* editor: workspace settings and workspace folder
    pc,         \* position of the front end
    cli,        \* CLI: the parsed arguments
    ed,         \* editor: the locals of executeCodeSonarSarifDownload
    opts,       \* the connection options handed to the client
    authState,  \* hub session state; "none" before a client exists
    call,       \* the client operation in flight
    stderr,     \* CLI: what was written to the error stream
    exits,      \* CLI: the onExit calls, in order
    secret,     \* editor: the secret store, key -> password or U
    pending,    \* editor: un-awaited secret-store operations not yet applied
    trace,      \* history of the calls made to collaborators
    thrown,     \* editor: the error the command threw, or NoError
    fnIn,       \* input of a pure function under check
    fnOut       \* its result

vars == << fe, argv, cfg, pc, cli, ed, opts, authState, call, stderr, exits,
           secret, pending, trace, thrown, fnIn, fnOut >>

Ev(e) == << e >>
Ev2(e, a) == << e, a >>
Ev3(e, a, b) == << e, a, b >>
EvName(x) == x[1]
Count(name) == Cardinality({ i \in 1..Len(trace) : EvName(trace[i]) = name })
Happened(name) == \E i \in 1..Len(trace) : EvName(trace[i]) = name
FirstIndex(name) ==
    IF Happened(name)
    THEN CHOOSE i \in 1..Len(trace) :
            /\ EvName(trace[i]) = name
            /\ \A j \in 1..(i - 1) : EvName(trace[j]) # name
    ELSE 0


NoCli == HubParseInit

Log(events) == trace' = trace \o events

\* ------------------------------------------------------------- the hub CLI
\* The connection options the hub CLI builds from its arguments.
HubOptions(p) ==
    LET o1 == IF ~Falsy(p.cacertFilePath)
              THEN [NoOpts EXCEPT !.cafile = p.cacertFilePath] ELSE NoOpts
        o2 == IF ~Falsy(p.userName) THEN [o1 EXCEPT !.hubuser = p.userName] ELSE o1
        o3 == IF ~Falsy(p.userPasswordFilePath)
              THEN [o2 EXCEPT !.hubpwfile = p.userPasswordFilePath] ELSE o2
    IN  IF ~Falsy(p.userCertFilePath) \/ ~Falsy(p.userKeyFilePath)
        THEN [o3 EXCEPT
                !.hubcert = IF p.userCertFilePath # U THEN p.userCertFilePath
                            ELSE IF p.userKeyFilePath # U THEN p.userKeyFilePath
                            ELSE <<>>,
                !.hubkey = IF p.userKeyFilePath # U THEN p.userKeyFilePath
                           ELSE IF p.userCertFilePath # U THEN p.userCertFilePath
                           ELSE <<>>]
        ELSE o3

\* The exit status main reports for an argument error.
UsageExitCode == 2
\* The exit status errorHandler reports.
FailureExitCode == 1

\* The hub CLI reads a truthy resolved value as a rejection message.
HubReadsAsRejectedNever(v) == FALSE
HubReadsAsRejected(v) == Truthy(v)

\* errorHandler: write the error, report status 1.
ErrorHandler(msg) ==
    /\ stderr' = Append(stderr, msg)
    /\ exits' = Append(exits, FailureExitCode)
    /\ pc' = "done"

\* main of the hub CLI up to the call of signIn().
HubMain ==
    /\ fe = "hubcli" /\ pc = "start"
    /\ LET p == HubParse(argv)
       IN  /\ cli' = p
           /\ IF p.errorMessage # NoError
              THEN /\ stderr' = Append(stderr, p.errorMessage)
                   /\ exits' = Append(exits, UsageExitCode)
                   /\ pc' = "done"
                   /\ UNCHANGED << opts, authState, call, trace >>
              ELSE /\ opts' = HubOptions(p)
                   /\ authState' = "Authenticating"
                   /\ call' = [NoCall EXCEPT !.op = "signIn", !.stage = "resolve"]
                   /\ Log(<< Ev2("connect", p.hubAddress), Ev("signIn") >>)
                   /\ pc' = "signin"
                   /\ UNCHANGED << stderr, exits >>
    /\ UNCHANGED << fe, argv, cfg, ed, secret, pending, thrown, fnIn, fnOut >>

\* signIn().then(...): a rejection message ends the run, otherwise fetch.
HubSignInThen ==
    /\ fe = "hubcli" /\ pc = "signin"
    /\ call.op = "signIn" /\ call.settled = "resolved"
    /\ IF HubReadsAsRejected(call.value)
       THEN /\ ErrorHandler(ErrMsg("Hub sign-in rejected", << call.value >>))
            /\ call' = NoCall
            /\ UNCHANGED trace
       ELSE /\ call' = [NoCall EXCEPT !.op = "fetch", !.stage = "request"]
            /\ Log(<< Ev2("fetch", cli.targetUrlString) >>)
            /\ pc' = "fetching"
            /\ UNCHANGED << stderr, exits >>
    /\ UNCHANGED << fe, argv, cfg, cli, ed, opts, authState, secret, pending, thrown,
                    fnIn, fnOut >>

\* signIn().catch(errorHandler)
HubSignInCatch ==
    /\ fe = "hubcli" /\ pc = "signin"
    /\ call.op = "signIn" /\ call.settled = "rejected"
    /\ ErrorHandler(ErrMsg(call.error, U))
    /\ call' = NoCall
    /\ UNCHANGED << fe, argv, cfg, cli, ed, opts, authState, secret, pending, trace,
                    thrown, fnIn, fnOut >>

\* fetch().then(...): pipe the body to stdout and report status 0 at once.
HubFetchThen ==
    /\ fe = "hubcli" /\ pc = "fetching"
    /\ call.op = "fetch" /\ call.settled = "resolved"
    /\ exits' = Append(exits, 0)
    /\ Log(<< Ev("pipe") >>)
    /\ pc' = "piping"
    /\ call' = NoCall
    /\ UNCHANGED << fe, argv, cfg, cli, ed, opts, authState, stderr, secret, pending,
                    thrown, fnIn, fnOut >>

\* fetch().catch(errorHandler)
HubFetchCatch ==
    /\ fe = "hubcli" /\ pc = "fetching"
    /\ call.op = "fetch" /\ call.settled = "rejected"
    /\ ErrorHandler(ErrMsg(call.error, U))
    /\ call' = NoCall
    /\ UNCHANGED << fe, argv, cfg, cli, ed, opts, authState, secret, pending, trace,
                    thrown, fnIn, fnOut >>

\* The response body, once piped to stdout, ends or fails in mid-transfer.  Neither
\* CLI listens to the body's 'error' event: nothing of main runs on either.
CliStreamEnd ==
    /\ fe \in { "hubcli", "httpcli" } /\ pc = "piping"
    /\ pc' = "done"
    /\ Log(<< Ev("streamEnd") >>)
    /\ UNCHANGED << fe, argv, cfg, cli, ed, opts, authState, call, stderr, exits,
                    secret, pending, thrown, fnIn, fnOut >>

CliStreamError ==
    /\ fe \in { "hubcli", "httpcli" } /\ pc = "piping"
    /\ pc' = "done"
    /\ Log(<< Ev("streamError") >>)
    /\ UNCHANGED << fe, argv, cfg, cli, ed, opts, authState, call, stderr, exits,
                    secret, pending, thrown, fnIn, fnOut >>

\* ------------------------------------------------------------ the HTTP CLI
\* new URL(s) accepts a string with a scheme.
UrlParses(s) == \E i \in 2..Len(s) : s[i] = ":"

\* doRequest: connect and issue the request.
HttpDoRequest(target) ==
    /\ stderr' = Append(stderr, ErrMsg("start request...", U))
    /\ Log(<< Ev("connect"), Ev2("request", target) >>)
    /\ pc' = "requesting"

HttpMain ==
    /\ fe = "httpcli" /\ pc = "start"
    /\ LET p == HttpParse(argv)
       IN  /\ cli' = [HubParseInit EXCEPT !.errorMessage = p.errorMessage,
                                          !.targetUrlString = p.targetUrlString,
                                          !.cacertFilePath = p.cacertFilePath]
           /\ IF p.errorMessage # NoError
              THEN /\ stderr' = Append(stderr, p.errorMessage)
                   /\ exits' = Append(exits, UsageExitCode)
                   /\ pc' = "done"
                   /\ UNCHANGED trace
              ELSE IF ~UrlParses(p.targetUrlString)
              THEN \* new URL throws out of main
                   /\ pc' = "crashed"
                   /\ UNCHANGED << stderr, exits, trace >>
              ELSE IF ~Falsy(p.cacertFilePath)
              THEN /\ Log(<< Ev2("readFile", p.cacertFilePath) >>)
                   /\ pc' = "readfile"
                   /\ UNCHANGED << stderr, exits >>
              ELSE HttpDoRequest(p.targetUrlString) /\ UNCHANGED exits
    /\ UNCHANGED << fe, argv, cfg, ed, opts, authState, call, secret, pending, thrown,
                    fnIn, fnOut >>

\* The readFile callback of the CA certificate.
HttpReadFileDone ==
    /\ fe = "httpcli" /\ pc = "readfile"
    /\ \/ /\ ErrorHandler(ErrMsg("readFile failed", U))
          /\ UNCHANGED trace
       \/ /\ HttpDoRequest(cli.targetUrlString)
          /\ UNCHANGED exits
    /\ UNCHANGED << fe, argv, cfg, cli, ed, opts, authState, call, secret, pending,
                    thrown, fnIn, fnOut >>

HttpRequestThen ==
    /\ fe = "httpcli" /\ pc = "requesting"
    /\ stderr' = Append(stderr, ErrMsg("read response...", U))
    /\ exits' = Append(exits, 0)
    /\ Log(<< Ev("pipe") >>)
    /\ pc' = "piping"
    /\ UNCHANGED << fe, argv, cfg, cli, ed, opts, authState, call, secret, pending,
                    thrown, fnIn, fnOut >>

HttpRequestCatch ==
    /\ fe = "httpcli" /\ pc = "requesting"
    /\ ErrorHandler(ErrMsg("request failed", U))
    /\ UNCHANGED << fe, argv, cfg, cli, ed, opts, authState, call, secret, pending,
                    trace, thrown, fnIn, fnOut >>


\* ------------------------------------------------- editor: pure helpers
S_a == <<"a">>
S_dotcert == <<".","c","e","r","t">>
S_dotkey == <<".","k","e","y">>
S_dotpem == <<".","p","e","m">>
S_slash == <<"/">>
Digits == { "0", "1", "2", "3", "4", "5", "6", "7", "8", "9" }

\* Index of the first occurrence of p in s at or after i; 0 when there is none.
RECURSIVE IndexOf(_, _, _)
IndexOf(s, p, i) ==
    IF i + Len(p) - 1 > Len(s) THEN 0
    ELSE IF SubSeq(s, i, i + Len(p) - 1) = p THEN i
    ELSE IndexOf(s, p, i + 1)

NoAddress == [ok |-> FALSE, protocol |-> U, hostname |-> U, port |-> U]

\* new CSHubAddress(s): optional scheme prefix, hostname, optional port; the
\* parse fails on an empty hostname or a non-numeric port (specification 4.1).
CSHubAddress(s) ==
    LET sep == <<":", "/", "/">>
        k == IndexOf(s, sep, 1)
        protocol == IF k > 0 THEN SubSeq(s, 1, k - 1) ELSE U
        rest == IF k > 0 THEN SubSeq(s, k + 3, Len(s)) ELSE s
        c == IndexOf(rest, <<":">>, 1)
        hostname == IF c > 0 THEN SubSeq(rest, 1, c - 1) ELSE rest
        port == IF c > 0 THEN SubSeq(rest, c + 1, Len(rest)) ELSE U
        ok == /\ hostname # <<>>
              /\ port # U => (port # <<>> /\ \A i \in 1..Len(port) : port[i] \in Digits)
    IN  IF ok THEN [ok |-> TRUE, protocol |-> protocol, hostname |-> hostname, port |-> port]
        ELSE NoAddress

\* parseCSProjectId / parseCSAnalysisId: a non-empty string of digits is an id,
\* anything else is rejected (specification 3).
ValidId(s) == s # U /\ s # <<>> /\ \A i \in 1..Len(s) : s[i] \in Digits

\* `${username}@{$hubAddress.hostname}`: the braces precede the dollar sign, so the
\* text "{$hubAddress.hostname}" is literal and the hostname is not interpolated.
formatUserHubAddress(hubAddress, username) ==
    LET s0 == username \o << "@", "{$hubAddress.hostname}" >>
        s1 == IF hubAddress.protocol # U
              THEN hubAddress.protocol \o << ":", "/", "/" >> \o s0
              ELSE s0
    IN  IF hubAddress.port # U THEN s1 \o << ":" >> \o hubAddress.port ELSE s1

PasswordStorageKey(hubAddress, username) ==
    << "codesonar:hubpasswd::" >> \o formatUserHubAddress(hubAddress, username)

\* path.normalize on paths without ".." segments: empty segments and "." segments
\* are dropped, a leading separator is kept, the empty path becomes ".".
RECURSIVE Segments(_, _)
Segments(s, cur) ==
    IF s = <<>> THEN << cur >>
    ELSE IF Head(s) = "/" THEN << cur >> \o Segments(Tail(s), <<>>)
    ELSE Segments(Tail(s), Append(cur, Head(s)))

RECURSIVE JoinSegments(_)
JoinSegments(segs) ==
    IF segs = <<>> THEN <<>>
    ELSE IF Len(segs) = 1 THEN segs[1]
    ELSE segs[1] \o S_slash \o JoinSegments(Tail(segs))

IsAbsolute(p) == p # <<>> /\ p[1] = "/"

Normalize(p) ==
    LET segs == SelectSeq(Segments(p, <<>>), LAMBDA g : g # <<>> /\ g # <<".">>)
        body == JoinSegments(segs)
    IN  IF IsAbsolute(p) THEN S_slash \o body
        ELSE IF body = <<>> THEN <<".">>
        ELSE body

\* resolveFilePath: normalize, make relative paths relative to the workspace folder.
resolveFilePath(ws, filePath) ==
    LET p1 == Normalize(filePath)
        p2 == IF ~IsAbsolute(p1) /\ ws # U THEN ws \o S_slash \o p1 ELSE p1
    IN  Normalize(p2)

\* The key file path when a certificate path is configured.
DeriveKeyPathSwapped(cert, key) ==
    IF key # U THEN key
    ELSE IF EndsWith(cert, S_dotcert)
         THEN Substring0(cert, Len(cert) - Len(S_dotcert)) \o S_dotkey \o S_dotpem
    ELSE IF EndsWith(cert, S_dotcert \o S_dotpem)
         THEN Substring0(cert, Len(cert) - Len(S_dotcert \o S_dotpem)) \o S_dotkey
    ELSE cert \o S_dotkey

DeriveKeyPath(cert, key) ==
    IF key # U THEN key
    ELSE IF EndsWith(cert, S_dotcert)
         THEN Substring0(cert, Len(cert) - Len(S_dotcert)) \o S_dotkey
    ELSE IF EndsWith(cert, S_dotcert \o S_dotpem)
         THEN Substring0(cert, Len(cert) - Len(S_dotcert \o S_dotpem))
              \o S_dotkey \o S_dotpem
    ELSE cert \o S_dotkey


\* ------------------------------------------------ editor: configuration
S_user == <<"u">>
S_pw == <<"p">>
S_pwfile == <<"f">>
S_key == <<"k">>
S_ca == <<"c">>
S_ws == <<"/", "w">>
S_dest == <<"/", "w", "/", "o">>
A_hostport == <<"h", ":", "7">>
A_scheme == <<"s", ":", "/", "/", "g">>
A_bad == <<":", "7">>
Id1 == <<"1">>
Id2 == <<"2">>
Id3 == <<"3">>
IdBad == <<"x">>
N_P == <<"P">>
N_Q == <<"Q">>
N_B == <<"B">>
N_C == <<"C">>

NoInfo == [id |-> U, name |-> U]
NoArr == [def |-> FALSE, items |-> <<>>]
Arr(l) == [def |-> TRUE, items |-> l]

ProjectPool ==
    << [id |-> Id1, name |-> N_P], [id |-> Id2, name |-> N_Q], [id |-> Id3, name |-> N_P] >>
AnalysisPool ==
    << [id |-> Id1, name |-> N_B], [id |-> Id2, name |-> N_C], [id |-> Id3, name |-> N_B] >>

\* The listings a hub may return: the sub-lists of the first MaxList pool records.
RECURSIVE SubLists(_, _)
SubLists(pool, n) ==
    IF n = 0 THEN { <<>> }
    ELSE LET rest == SubLists(pool, n - 1)
         IN  rest \cup { Append(l, pool[n]) : l \in rest }

Listings(pool) == SubLists(pool, IF MaxList < Len(pool) THEN MaxList ELSE Len(pool))

BaseCfg ==
    [ ws |-> S_ws, name |-> U, id |-> Id1,
      hubForm |-> "object", address |-> A_hostport, cacert |-> U, hubuser |-> S_user,
      hubpwfile |-> U, hubcert |-> U, hubkey |-> U,
      baseForm |-> "none", baseName |-> U, baseId |-> U ]

\* Settings that vary the hub connection and the credentials.
HubCfgs ==
    { [BaseCfg EXCEPT !.hubuser = u, !.hubpwfile = f, !.hubcert = c, !.hubkey = k,
                      !.cacert = ca, !.ws = w]
        : u \in { U, S_user }, f \in { U, S_pwfile },
          c \in { U, S_a \o S_dotcert }, k \in { U, S_key },
          ca \in { U, S_ca }, w \in { U, S_ws } }
    \cup { [BaseCfg EXCEPT !.hubForm = "string", !.address = a, !.hubuser = U]
             : a \in { A_hostport, A_scheme, A_bad } }
    \cup { [BaseCfg EXCEPT !.hubForm = "none", !.address = U, !.hubuser = U] }
    \cup { [BaseCfg EXCEPT !.address = a, !.hubuser = u]
             : a \in { U, <<>>, A_scheme }, u \in { U, S_user } }

\* Settings that vary the project and the baseline analysis.
ProjectCfgs ==
    { [BaseCfg EXCEPT !.name = n, !.id = i, !.baseForm = b[1], !.baseName = b[2],
                      !.baseId = b[3]]
        : n \in { U, N_P }, i \in { U, Id1, IdBad },
          b \in { << "none", U, U >>, << "string", N_B, U >>, << "string", <<>>, U >>,
                  << "object", U, Id2 >>, << "object", N_C, U >>,
                  << "object", N_C, Id1 >>, << "object", U, IdBad >>,
                  << "object", U, U >> } }

EditorCfgs == HubCfgs \cup ProjectCfgs

EdInit ==
    [ projectName |-> U, projectId |-> U, baseAnalysisName |-> U, baseAnalysisId |-> U,
      hubAddressString |-> U, hubCAFilePath |-> U, hubUserName |-> U,
      hubUserPasswordFilePath |-> U, hubUserCertFilePath |-> U,
      hubUserCertKeyFilePath |-> U,
      hubAddressObject |-> NoAddress, passwordStorageKey |-> U, hasClient |-> FALSE,
      signInSucceeded |-> FALSE, projects |-> NoArr, projectInfo |-> NoInfo,
      analyses |-> NoArr, baseAnalysisInfo |-> NoInfo, analysisInfo |-> NoInfo,
      destinationUri |-> U, destFile |-> "untouched" ]

\* The locals after the settings were read (lines 89-137).
ReadConfig(c) ==
    LET obj == c.hubForm = "object"
    IN  [EdInit EXCEPT
          !.projectName = IF ~Falsy(c.name) THEN c.name ELSE U,
          !.projectId = c.id,
          !.baseAnalysisName =
              IF c.baseForm = "string" THEN c.baseName
              ELSE IF c.baseForm = "object" /\ c.baseId = U THEN c.baseName
              ELSE U,
          !.baseAnalysisId = IF c.baseForm = "object" THEN c.baseId ELSE U,
          !.hubAddressString = IF c.hubForm = "none" THEN U ELSE c.address,
          !.hubCAFilePath = IF obj THEN c.cacert ELSE U,
          !.hubUserName = IF obj THEN c.hubuser ELSE U,
          !.hubUserPasswordFilePath = IF obj THEN c.hubpwfile ELSE U,
          !.hubUserCertFilePath = IF obj THEN c.hubcert ELSE U,
          !.hubUserCertKeyFilePath = IF obj THEN c.hubkey ELSE U ]

\* parseCSProjectId or parseCSAnalysisId rejects a configured id.
ConfigIdRejected(c) ==
    \/ c.id # U /\ ~ValidId(c.id)
    \/ c.baseForm = "object" /\ c.baseId # U /\ ~ValidId(c.baseId)


\* ------------------------------------------- editor: connection options
\* Line 215 defines the interactive provider as a closure: nothing of it runs, no
\* collaborator is called, when the options are built.
InteractiveSetupEager(key) ==
    [ hubpasswd |-> TRUE, events |-> << Ev2("secretGet", key) >> ]

InteractiveSetup(key) ==
    [ hubpasswd |-> TRUE, events |-> <<>> ]

\* The credential part of the options (lines 175-241): the options, the calls made
\* to collaborators, and the un-awaited secret-store operations issued.
CredentialOptionsAll(o, ws, L, key) ==
    LET o1 == IF ~Falsy(L.hubUserCertFilePath)
              THEN [o EXCEPT
                     !.hubcert = resolveFilePath(ws, L.hubUserCertFilePath),
                     !.hubkey = resolveFilePath(ws,
                         DeriveKeyPath(L.hubUserCertFilePath, L.hubUserCertKeyFilePath))]
              ELSE o
        o2 == IF ~Falsy(L.hubUserPasswordFilePath)
              THEN [o1 EXCEPT !.hubpwfile = resolveFilePath(ws, L.hubUserPasswordFilePath)]
              ELSE o1
        del == ~Falsy(L.hubUserPasswordFilePath) /\ key # U
        setup == InteractiveSetup(key)
        inter == ~Falsy(L.hubAddressString) /\ ~Falsy(L.hubUserName) /\ key # U
    IN  [ opts |-> IF inter THEN [o2 EXCEPT !.hubpasswd = setup.hubpasswd] ELSE o2,
          events |-> (IF del THEN << Ev2("secretDelete", key) >> ELSE <<>>)
                     \o (IF inter THEN setup.events ELSE <<>>),
          ops |-> IF del THEN << << "delete", key, U >> >> ELSE <<>> ]

CredentialOptions(o, ws, L, key) ==
    IF ~Falsy(L.hubUserCertFilePath)
    THEN [ opts |-> [o EXCEPT
                      !.hubcert = resolveFilePath(ws, L.hubUserCertFilePath),
                      !.hubkey = resolveFilePath(ws,
                          DeriveKeyPath(L.hubUserCertFilePath, L.hubUserCertKeyFilePath))],
           events |-> <<>>, ops |-> <<>> ]
    ELSE IF ~Falsy(L.hubUserPasswordFilePath)
    THEN [ opts |-> [o EXCEPT !.hubpwfile = resolveFilePath(ws, L.hubUserPasswordFilePath)],
           events |-> IF key # U THEN << Ev2("secretDelete", key) >> ELSE <<>>,
           ops |-> IF key # U THEN << << "delete", key, U >> >> ELSE <<>> ]
    ELSE IF ~Falsy(L.hubAddressString) /\ ~Falsy(L.hubUserName) /\ key # U
    THEN LET setup == InteractiveSetup(key)
         IN  [ opts |-> [o EXCEPT !.hubpasswd = setup.hubpasswd],
               events |-> setup.events, ops |-> <<>> ]
    ELSE [ opts |-> o, events |-> <<>>, ops |-> <<>> ]

\* Lines 157-174: the address object, the CA file, the user name, the storage key.
BaseOptions(ws, L) ==
    LET o1 == IF ~Falsy(L.hubCAFilePath)
              THEN [NoOpts EXCEPT !.cafile = resolveFilePath(ws, L.hubCAFilePath)]
              ELSE NoOpts
    IN  IF ~Falsy(L.hubUserName) THEN [o1 EXCEPT !.hubuser = L.hubUserName] ELSE o1

StorageKeyOf(a, L) ==
    IF a.ok /\ ~Falsy(L.hubUserName) THEN PasswordStorageKey(a, L.hubUserName) ELSE U

Throw(msg) ==
    /\ thrown' = ErrMsg(msg, U)
    /\ pc' = "threw"

\* Lines 157-250: build the options, construct the client, call signIn().  Without a
\* hub address there is no client and nothing of lines 275-352 runs.
Build(L) ==
    LET hasAddr == ~Falsy(L.hubAddressString)
        a == IF hasAddr THEN CSHubAddress(L.hubAddressString) ELSE NoAddress
        key == StorageKeyOf(a, L)
        cred == CredentialOptions(BaseOptions(cfg.ws, L), cfg.ws, L, key)
        L2 == [L EXCEPT !.hubAddressObject = a, !.passwordStorageKey = key,
                        !.hasClient = a.ok]
    IN  IF hasAddr /\ ~a.ok
        THEN /\ Throw("ParseError")
             /\ ed' = L
             /\ UNCHANGED << opts, authState, call, trace, pending >>
        ELSE /\ ed' = L2
             /\ opts' = cred.opts
             /\ pending' = pending \o cred.ops
             /\ UNCHANGED thrown
             /\ IF a.ok
                THEN /\ authState' = "Authenticating"
                     /\ call' = [NoCall EXCEPT !.op = "signIn", !.stage = "resolve"]
                     /\ Log(cred.events \o << Ev2("connect", L.hubAddressString),
                                              Ev("signIn") >>)
                     /\ pc' = "signin"
                ELSE /\ Log(cred.events)
                     /\ pc' = "done"
                     /\ UNCHANGED << authState, call >>

\* Lines 78-139: read the settings; ask for the hub address when none is set.
EdStart ==
    /\ fe \in { "full", "diff" } /\ pc = "start"
    /\ LET L == ReadConfig(cfg)
       IN  IF ConfigIdRejected(cfg)
           THEN /\ Throw("ParseError")
                /\ UNCHANGED << ed, opts, authState, call, trace, pending >>
           ELSE IF Falsy(L.hubAddressString)
           THEN /\ ed' = L
                /\ Log(<< Ev2("showInputBox", "Hub Address") >>)
                /\ pc' = "ask_address"
                /\ UNCHANGED << opts, authState, call, pending, thrown >>
           ELSE Build(L)
    /\ UNCHANGED << fe, argv, cfg, cli, stderr, exits, secret, fnIn, fnOut >>

\* Lines 139-154: the hub address was entered (or the box dismissed).
EdAddressEntered ==
    /\ fe \in { "full", "diff" } /\ pc = "ask_address"
    /\ \E v \in { U, <<>>, A_hostport } :
         LET L == [ed EXCEPT !.hubAddressString = v]
         IN  IF ~Falsy(v) /\ Falsy(ed.hubUserName)
             THEN /\ ed' = L
                  /\ Log(<< Ev2("showInputBox", "Hub User") >>)
                  /\ pc' = "ask_user"
                  /\ UNCHANGED << opts, authState, call, pending, thrown >>
             ELSE Build(L)
    /\ UNCHANGED << fe, argv, cfg, cli, stderr, exits, secret, fnIn, fnOut >>

EdUserEntered ==
    /\ fe \in { "full", "diff" } /\ pc = "ask_user"
    /\ \E v \in { U, S_user } : Build([ed EXCEPT !.hubUserName = v])
    /\ UNCHANGED << fe, argv, cfg, cli, stderr, exits, secret, fnIn, fnOut >>


\* ------------------------------------------------- the hub client session
\* The credential scheme the client honours (specification 3: certificate, then
\* password file, then interactive password).
ActiveScheme(o) ==
    IF o.hubcert # U \/ o.hubkey # U THEN "cert"
    ELSE IF o.hubpwfile # U THEN "pwfile"
    ELSE IF o.hubpasswd THEN "interactive"
    ELSE "none"

\* The history entry of a settled signIn(): how it settled and with what.
Settled(how, v) == Ev3("signInSettled", how, v)

\* signIn() raises: the session is Failed, the promise is rejected; `events` are the
\* calls made in the same step.
SignInFails(err, events) ==
    /\ authState' = "Failed"
    /\ call' = [call EXCEPT !.stage = "settled", !.settled = "rejected", !.error = err]
    /\ Log(events \o << Settled("rejected", err) >>)

\* signIn(), credential resolution from files: the files are read, or cannot be.
ClientResolveCredential ==
    /\ call.op = "signIn" /\ call.stage = "resolve"
    /\ ActiveScheme(opts) \in { "cert", "pwfile", "none" }
    /\ \/ /\ call' = [call EXCEPT !.stage = "request"]
          /\ UNCHANGED << authState, trace >>
       \/ /\ ActiveScheme(opts) # "none"
          /\ SignInFails("CredentialResolutionError", <<>>)
    /\ UNCHANGED << fe, argv, cfg, pc, cli, ed, opts, stderr, exits, secret, pending,
                    thrown, fnIn, fnOut >>

\* The channel of a sign-in outcome (specification 4.4): a request the hub did not
\* answer raises, what the hub answered is returned.
SignInChannelRaisesOnDecline(answer) ==
    IF answer = "confirmed" THEN "return" ELSE "raise"

SignInChannel(answer) ==
    IF answer = "unreachable" THEN "raise" ELSE "return"

HubAnswers == { "confirmed", "declined", "unreachable" }

\* signIn(), the sign-in request: confirmed, declined, or no answer.
ClientSignInRequest ==
    /\ call.op = "signIn" /\ call.stage = "request"
    /\ \E answer \in HubAnswers :
         IF SignInChannel(answer) = "raise"
         THEN SignInFails(IF answer = "unreachable" THEN "ConnectionError"
                          ELSE "AuthRejected",
                          << Ev2("signInRequest", answer) >>)
         ELSE \E shape \in { "message", "boolean" } :
              \E v \in SignInResults(IF answer = "confirmed" THEN "ok" ELSE "rejected",
                                     shape) :
                /\ authState' = IF answer = "confirmed" THEN "Authenticated"
                                ELSE "Failed"
                /\ call' = [call EXCEPT !.stage = "settled", !.settled = "resolved",
                                        !.value = v]
                /\ Log(<< Ev2("signInRequest", answer), Settled("resolved", v) >>)
    /\ UNCHANGED << fe, argv, cfg, pc, cli, ed, opts, stderr, exits, secret, pending,
                    thrown, fnIn, fnOut >>

FetchOps ==
    { "fetch", "fetchProjectInfo", "fetchAnalysisInfo", "fetchSarifAnalysisStream",
      "fetchSarifAnalysisDifferenceStream" }

ListingsOf(op) ==
    IF op = "fetchProjectInfo" THEN Listings(ProjectPool)
    ELSE IF op = "fetchAnalysisInfo" THEN Listings(AnalysisPool)
    ELSE { <<>> }

\* Authenticated operations are valid only in Authenticated (specification 4.4).
FetchGuardOpen(state) == "request"

FetchGuard(state) ==
    IF state # "Authenticated" THEN "AuthRequired" ELSE "request"

\* An authenticated fetch: refused at once outside Authenticated, otherwise one
\* request that yields a result or fails.
ClientFetchSettle ==
    /\ call.op \in FetchOps /\ call.stage = "request"
    /\ IF FetchGuard(authState) = "AuthRequired"
       THEN /\ call' = [call EXCEPT !.stage = "settled", !.settled = "rejected",
                                    !.error = "AuthRequired"]
            /\ UNCHANGED trace
       ELSE /\ Log(<< Ev2("hubRequest", call.op) >>)
            /\ \/ \E l \in ListingsOf(call.op) :
                    call' = [call EXCEPT !.stage = "settled", !.settled = "resolved",
                                         !.list = l]
               \/ call' = [call EXCEPT !.stage = "settled", !.settled = "rejected",
                                       !.error = "ConnectionError"]
    /\ UNCHANGED << fe, argv, cfg, pc, cli, ed, opts, authState, stderr, exits, secret,
                    pending, thrown, fnIn, fnOut >>

\* -------------------------------------- editor: the interactive provider
SecretGet(key) ==
    IF \E e \in secret : e[1] = key
    THEN (CHOOSE e \in secret : e[1] = key)[2]
    ELSE U

\* The handler of the password input box (lines 228-235).
ProviderOnInputStoresAlways(inputValue) ==
    [ settle |-> "resolve", store |-> TRUE ]

ProviderOnInput(inputValue) ==
    IF inputValue = U
    THEN [ settle |-> "reject", store |-> FALSE ]
    ELSE [ settle |-> "resolve", store |-> TRUE ]

\* signIn() needs the password: the provider runs and looks the password up.
ProviderInvoke ==
    /\ call.op = "signIn" /\ call.stage = "resolve"
    /\ ActiveScheme(opts) = "interactive"
    /\ call' = [call EXCEPT !.stage = "prov_get"]
    /\ Log(<< Ev2("secretGet", ed.passwordStorageKey) >>)
    /\ UNCHANGED << fe, argv, cfg, pc, cli, ed, opts, authState, stderr, exits, secret,
                    pending, thrown, fnIn, fnOut >>

\* Lines 217-221: what the provider does with the result of the lookup.
ProviderOnPasswordTruthy(password) ==
    IF ~Falsy(password) THEN [ resolve |-> TRUE, value |-> password ]
    ELSE [ resolve |-> FALSE, value |-> U ]

ProviderOnPassword(password) ==
    IF password # U THEN [ resolve |-> TRUE, value |-> password ]
    ELSE [ resolve |-> FALSE, value |-> U ]

\* secretStorage.get() resolved (lines 216-227).
ProviderGetThen ==
    /\ call.op = "signIn" /\ call.stage = "prov_get"
    /\ LET password == SecretGet(ed.passwordStorageKey)
           r == ProviderOnPassword(password)
       IN  IF r.resolve
           THEN /\ call' = [call EXCEPT !.stage = "request"]
                /\ Log(<< Ev2("secretGetResult", password), Ev("foundSavedPassword"),
                          Ev2("providerResolved", r.value) >>)
           ELSE /\ call' = [call EXCEPT !.stage = "prov_prompt"]
                /\ Log(<< Ev2("secretGetResult", password), Ev("promptPassword") >>)
    /\ UNCHANGED << fe, argv, cfg, pc, cli, ed, opts, authState, stderr, exits, secret,
                    pending, thrown, fnIn, fnOut >>

\* secretStorage.get() rejected: the then() at line 216 has no rejection handler,
\* the provider's promise is never settled.
ProviderGetRejected ==
    /\ call.op = "signIn" /\ call.stage = "prov_get"
    /\ call' = [call EXCEPT !.stage = "prov_hung"]
    /\ UNCHANGED << fe, argv, cfg, pc, cli, ed, opts, authState, stderr, exits, secret,
                    pending, trace, thrown, fnIn, fnOut >>

\* The password input box was answered or dismissed (lines 228-236).
ProviderPromptThen ==
    /\ call.op = "signIn" /\ call.stage = "prov_prompt"
    /\ \E inputValue \in { U, S_pw } :
         LET r == ProviderOnInput(inputValue)
             events == << Ev2("passwordInput", inputValue) >>
                       \o (IF r.store
                           THEN << Ev2("secretStore", ed.passwordStorageKey) >>
                           ELSE <<>>)
         IN  /\ pending' = IF r.store
                           THEN Append(pending,
                                       << "store", ed.passwordStorageKey, inputValue >>)
                           ELSE pending
             /\ IF r.settle = "reject"
                THEN SignInFails("User cancelled password input.", events)
                ELSE /\ call' = [call EXCEPT !.stage = "request"]
                     /\ Log(events \o << Ev2("providerResolved", inputValue) >>)
                     /\ UNCHANGED authState
    /\ UNCHANGED << fe, argv, cfg, pc, cli, ed, opts, stderr, exits, secret, thrown,
                    fnIn, fnOut >>

\* The input box itself failed (line 237).
ProviderPromptRejected ==
    /\ call.op = "signIn" /\ call.stage = "prov_prompt"
    /\ SignInFails("showInputBox failed", <<>>)
    /\ UNCHANGED << fe, argv, cfg, pc, cli, ed, opts, stderr, exits, secret, pending,
                    thrown, fnIn, fnOut >>

\* An un-awaited secretStorage.store / delete takes effect.
ApplySecretOp(store, op) ==
    LET others == { e \in store : e[1] # op[2] }
    IN  IF op[1] = "store" THEN others \cup { << op[2], op[3] >> } ELSE others

RemoveAt(q, i) == SubSeq(q, 1, i - 1) \o SubSeq(q, i + 1, Len(q))

SecretOpApplied ==
    /\ \E i \in 1..Len(pending) :
         /\ secret' = ApplySecretOp(secret, pending[i])
         /\ pending' = RemoveAt(pending, i)
    /\ UNCHANGED << fe, argv, cfg, pc, cli, ed, opts, authState, call, stderr, exits,
                    trace, thrown, fnIn, fnOut >>


\* ------------------------------------------- editor: after the sign-in
Editor == fe \in { "full", "diff" }

StartFetch(op, event) ==
    /\ call' = [NoCall EXCEPT !.op = op, !.stage = "request"]
    /\ Log(<< event >>)

\* The editor command reads the resolved value as a success flag.
EdReadsAsSuccessAlways(v) == TRUE
EdReadsAsSuccess(v) == Truthy(v)

\* The finally block (lines 266-270): forget the password after a failed sign-in.
FinallyDelete ==
    IF ed.passwordStorageKey # U
    THEN /\ pending' = Append(pending, << "delete", ed.passwordStorageKey, U >>)
         /\ Log(<< Ev2("secretDelete", ed.passwordStorageKey) >>)
    ELSE UNCHANGED << pending, trace >>

\* Lines 297-303: the project id, then the analyses of the project.
AfterProject(L, info, events) ==
    LET pid == IF L.projectId = U /\ info.id # U THEN info.id ELSE L.projectId
    IN  /\ ed' = [L EXCEPT !.projectId = pid, !.projectInfo = info]
        /\ IF pid # U
           THEN /\ call' = [NoCall EXCEPT !.op = "fetchAnalysisInfo", !.stage = "request"]
                /\ Log(events \o << Ev2("fetchAnalysisInfo", pid) >>)
                /\ pc' = "analyses"
           ELSE /\ pc' = "done"
                /\ call' = NoCall
                /\ Log(events)

\* A variant of the settled sign-in that signs in again after a failure.
EdSignInSettledRetry ==
    /\ Editor /\ pc = "signin"
    /\ call.op = "signIn" /\ call.stage = "settled"
    /\ IF call.settled = "resolved" /\ EdReadsAsSuccess(call.value)
       THEN /\ AfterProject([ed EXCEPT !.signInSucceeded = TRUE], NoInfo, <<>>)
            /\ UNCHANGED << pending, thrown, authState >>
       ELSE /\ authState' = "Authenticating"
            /\ call' = [NoCall EXCEPT !.op = "signIn", !.stage = "resolve"]
            /\ Log(<< Ev("signIn") >>)
            /\ UNCHANGED << pc, ed, pending, thrown >>
    /\ UNCHANGED << fe, argv, cfg, cli, opts, stderr, exits, secret, fnIn, fnOut >>

\* Lines 250-277: signIn() settled.
EdSignInSettled ==
    /\ Editor /\ pc = "signin"
    /\ call.op = "signIn" /\ call.stage = "settled"
    /\ IF call.settled = "resolved" /\ EdReadsAsSuccess(call.value)
       THEN /\ IF ed.projectId = U
               THEN /\ ed' = [ed EXCEPT !.signInSucceeded = TRUE]
                    /\ StartFetch("fetchProjectInfo",
                                  Ev2("fetchProjectInfo", ed.projectName))
                    /\ pc' = "proj1"
               ELSE AfterProject([ed EXCEPT !.signInSucceeded = TRUE], NoInfo, <<>>)
            /\ UNCHANGED << pending, thrown >>
       ELSE /\ thrown' = ErrMsg("CodeSonar hub sign-in error",
                                << IF call.settled = "resolved" THEN "Access forbidden"
                                   ELSE call.error >>)
            /\ pc' = "threw"
            /\ call' = NoCall
            /\ FinallyDelete
            /\ UNCHANGED ed
    /\ UNCHANGED << fe, argv, cfg, cli, opts, authState, stderr, exits, secret, fnIn,
                    fnOut >>

\* Lines 287-296: one project is taken, several are offered in a picker.
SelectProjectByPicker(L, l, events) ==
    IF Len(l) >= 1
    THEN /\ ed' = L
         /\ Log(events \o << Ev2("showQuickPick", "Select a Project...") >>)
         /\ pc' = "pick_project"
         /\ call' = NoCall
    ELSE AfterProject(L, NoInfo, events)

SelectProject(L, l, events) ==
    IF Len(l) = 1 THEN AfterProject(L, l[1], events)
    ELSE IF Len(l) > 1
    THEN /\ ed' = L
         /\ Log(events \o << Ev2("showQuickPick", "Select a Project...") >>)
         /\ pc' = "pick_project"
         /\ call' = NoCall
    ELSE AfterProject(L, NoInfo, events)

\* Lines 277-286: the filtered project listing arrived.
EdProjectsFetched ==
    /\ Editor /\ pc = "proj1"
    /\ call.op = "fetchProjectInfo" /\ call.stage = "settled"
    /\ IF call.settled = "rejected"
       THEN Throw(call.error) /\ call' = NoCall /\ UNCHANGED << ed, trace >>
       ELSE /\ UNCHANGED thrown
            /\ LET L == [ed EXCEPT !.projects = Arr(call.list)]
                   arrived == << Ev2("projectInfoArray", call.list) >>
               IN  IF Len(call.list) < 1 /\ ~Falsy(ed.projectName)
                   THEN /\ ed' = L
                        /\ call' = [NoCall EXCEPT !.op = "fetchProjectInfo",
                                                  !.stage = "request"]
                        /\ Log(arrived \o << Ev2("fetchProjectInfo", U) >>)
                        /\ pc' = "proj2"
                   ELSE SelectProject(L, call.list, arrived)
    /\ UNCHANGED << fe, argv, cfg, cli, opts, authState, stderr, exits, secret, pending,
                    fnIn, fnOut >>

\* Lines 282-296: the unfiltered project listing arrived.
EdProjectsRefetched ==
    /\ Editor /\ pc = "proj2"
    /\ call.op = "fetchProjectInfo" /\ call.stage = "settled"
    /\ IF call.settled = "rejected"
       THEN Throw(call.error) /\ call' = NoCall /\ UNCHANGED << ed, trace >>
       ELSE /\ UNCHANGED thrown
            /\ LET L == [ed EXCEPT !.projects = Arr(call.list)]
                   arrived == << Ev2("projectInfoArray", call.list) >>
               IN  IF Len(call.list) < 1
                   THEN /\ ed' = L
                        /\ Log(arrived
                               \o << Ev2("showInformationMessage", "no projects") >>)
                        /\ pc' = "done"
                        /\ call' = NoCall
                   ELSE SelectProject(L, call.list, arrived)
    /\ UNCHANGED << fe, argv, cfg, cli, opts, authState, stderr, exits, secret, pending,
                    fnIn, fnOut >>

\* The project picker was accepted or dismissed.
EdProjectPicked ==
    /\ Editor /\ pc = "pick_project"
    /\ \E i \in 0..Len(ed.projects.items) :
         AfterProject(ed, IF i = 0 THEN NoInfo ELSE ed.projects.items[i], <<>>)
    /\ UNCHANGED << fe, argv, cfg, cli, opts, authState, stderr, exits, secret, pending,
                    thrown, fnIn, fnOut >>


\* ------------------------------------- editor: analyses and the download
\* Array.prototype.find: the first element with the property, or undefined.
FindByIdOrFirst(l, id) == IF Len(l) > 0 THEN l[1] ELSE NoInfo

FindById(l, id) ==
    IF \E i \in 1..Len(l) : l[i].id = id
    THEN l[CHOOSE i \in 1..Len(l) :
             l[i].id = id /\ \A j \in 1..(i - 1) : l[j].id # id]
    ELSE NoInfo

FindByName(l, name) ==
    IF \E i \in 1..Len(l) : l[i].name = name
    THEN l[CHOOSE i \in 1..Len(l) :
             l[i].name = name /\ \A j \in 1..(i - 1) : l[j].name # name]
    ELSE NoInfo

\* Line 333: the analysis picker is shown when no baseline is needed or one is there.
PromptsForAnalysisAlways(withAnalysisBaseline, baseAnalysisInfo) == TRUE

PromptsForAnalysis(withAnalysisBaseline, baseAnalysisInfo) ==
    ~withAnalysisBaseline \/ baseAnalysisInfo # NoInfo

\* Lines 333-347: the analysis picker, or nothing further without an analysis.
ShowAnalysisPicker(L, events) ==
    /\ ed' = L
    /\ IF PromptsForAnalysis(fe = "diff", L.baseAnalysisInfo)
       THEN /\ Log(events \o << Ev2("showQuickPick", "Select an Analysis...") >>)
            /\ pc' = "pick_analysis"
       ELSE /\ Log(events)
            /\ pc' = "done"

\* Lines 300-336: the analysis listing arrived; find or ask for the baseline.
EdAnalysesFetched ==
    /\ Editor /\ pc = "analyses"
    /\ call.op = "fetchAnalysisInfo" /\ call.stage = "settled"
    /\ call' = NoCall
    /\ IF call.settled = "rejected"
       THEN Throw(call.error) /\ UNCHANGED << ed, trace >>
       ELSE LET l == call.list
                L == [ed EXCEPT !.analyses = Arr(l)]
                byId == FindById(l, ed.baseAnalysisId)
                byName == FindByName(l, ed.baseAnalysisName)
            IN  IF Len(l) = 0
                THEN ed' = L /\ pc' = "done" /\ UNCHANGED << trace, thrown >>
                ELSE IF fe # "diff"
                THEN ShowAnalysisPicker(L, <<>>) /\ UNCHANGED thrown
                ELSE IF ed.baseAnalysisId # U
                THEN IF byId = NoInfo
                     THEN Throw("Baseline analysis was not found")
                          /\ ed' = L /\ UNCHANGED trace
                     ELSE ShowAnalysisPicker([L EXCEPT !.baseAnalysisInfo = byId], <<>>)
                          /\ UNCHANGED thrown
                ELSE IF ~Falsy(ed.baseAnalysisName)
                THEN IF byName = NoInfo
                     THEN Throw("Baseline analysis was not found")
                          /\ ed' = L /\ UNCHANGED trace
                     ELSE ShowAnalysisPicker([L EXCEPT !.baseAnalysisInfo = byName], <<>>)
                          /\ UNCHANGED thrown
                ELSE /\ ed' = L
                     /\ Log(<< Ev2("showQuickPick", "Select a Baseline Analysis...") >>)
                     /\ pc' = "pick_base"
                     /\ UNCHANGED thrown
    /\ UNCHANGED << fe, argv, cfg, cli, opts, authState, stderr, exits, secret, pending,
                    fnIn, fnOut >>

\* Lines 324-335: the baseline picker was accepted or dismissed.
EdBaselinePicked ==
    /\ Editor /\ pc = "pick_base"
    /\ \E i \in 0..Len(ed.analyses.items) :
         LET picked == IF i = 0 THEN NoInfo ELSE ed.analyses.items[i]
         IN  ShowAnalysisPicker([ed EXCEPT !.baseAnalysisInfo = picked],
                                << Ev2("baselinePicked", picked.id) >>)
    /\ UNCHANGED << fe, argv, cfg, cli, opts, authState, call, stderr, exits, secret,
                    pending, thrown, fnIn, fnOut >>

\* Lines 334-347: the analysis picker was accepted or dismissed.
EdAnalysisPicked ==
    /\ Editor /\ pc = "pick_analysis"
    /\ \E i \in 0..Len(ed.analyses.items) :
         IF i = 0
         THEN UNCHANGED << ed, trace >> /\ pc' = "done"
         ELSE /\ ed' = [ed EXCEPT !.analysisInfo = ed.analyses.items[i]]
              /\ Log(<< Ev("showSaveDialog") >>)
              /\ pc' = "save"
    /\ UNCHANGED << fe, argv, cfg, cli, opts, authState, call, stderr, exits, secret,
                    pending, thrown, fnIn, fnOut >>

\* Lines 524-530: the SARIF fetch downloadSarifResults issues.
SarifFetchOpSwapped(analysisId, baseAnalysisId) ==
    IF baseAnalysisId # U THEN "fetchSarifAnalysisStream"
    ELSE "fetchSarifAnalysisDifferenceStream"

SarifFetchOp(analysisId, baseAnalysisId) ==
    IF baseAnalysisId # U THEN "fetchSarifAnalysisDifferenceStream"
    ELSE "fetchSarifAnalysisStream"

\* Lines 346-352 and 486-530: the save dialog was answered; downloadSarifResults
\* opens the destination file and issues the fetch.
EdSaveAnswered ==
    /\ Editor /\ pc = "save"
    /\ \E uri \in { U, S_dest } :
         IF uri = U
         THEN UNCHANGED << ed, trace, call >> /\ pc' = "done"
         ELSE LET op == SarifFetchOp(ed.analysisInfo.id, ed.baseAnalysisInfo.id)
              IN  /\ ed' = [ed EXCEPT !.destinationUri = uri, !.destFile = "created"]
                  /\ call' = [NoCall EXCEPT !.op = op, !.stage = "request"]
                  /\ Log(<< Ev2("createWriteStream", uri),
                            Ev3(op, ed.analysisInfo.id, ed.baseAnalysisInfo.id) >>)
                  /\ pc' = "dl_fetch"
    /\ UNCHANGED << fe, argv, cfg, cli, opts, authState, stderr, exits, secret, pending,
                    thrown, fnIn, fnOut >>

\* Lines 531-539: the SARIF fetch settled.
EdDownloadFetched ==
    /\ Editor /\ pc = "dl_fetch"
    /\ call.op \in FetchOps /\ call.stage = "settled"
    /\ call' = NoCall
    /\ IF call.settled = "rejected"
       THEN Throw(call.error) /\ UNCHANGED trace
       ELSE Log(<< Ev("pipe") >>) /\ pc' = "dl_pipe" /\ UNCHANGED thrown
    /\ UNCHANGED << fe, argv, cfg, cli, ed, opts, authState, stderr, exits, secret,
                    pending, fnIn, fnOut >>

\* Lines 533-538: the destination stream finished, or failed.
EdDestinationFinished ==
    /\ Editor /\ pc = "dl_pipe"
    /\ Log(<< Ev2("showInformationMessage", "Downloaded") >>)
    /\ pc' = "done"
    /\ UNCHANGED << fe, argv, cfg, cli, ed, opts, authState, call, stderr, exits, secret,
                    pending, thrown, fnIn, fnOut >>

EdDestinationError ==
    /\ Editor /\ pc = "dl_pipe"
    /\ Throw("destination stream error")
    /\ UNCHANGED << fe, argv, cfg, cli, ed, opts, authState, call, stderr, exits, secret,
                    pending, trace, fnIn, fnOut >>

\* The response stream failed in mid-transfer: pipe() does not forward the error to
\* the destination, whose 'error' and 'finish' listeners are the only ones.
EdSourceError ==
    /\ Editor /\ pc = "dl_pipe"
    /\ Log(<< Ev("streamError") >>)
    /\ pc' = "dl_hung"
    /\ UNCHANGED << fe, argv, cfg, cli, ed, opts, authState, call, stderr, exits, secret,
                    pending, thrown, fnIn, fnOut >>

\* Line 533: pipe() hands a chunk of the response to the destination stream.
EdDataWritten ==
    /\ Editor /\ pc = "dl_pipe"
    /\ Count("write") < MaxChunks
    /\ Log(<< Ev("write") >>)
    /\ UNCHANGED << fe, argv, cfg, pc, cli, ed, opts, authState, call, stderr, exits,
                    secret, pending, thrown, fnIn, fnOut >>

\* Lines 500-502: the user cancels the download progress; the registered handler
\* has an empty body, neither stream is touched.
EdCancelRequested ==
    /\ Editor /\ pc \in { "dl_fetch", "dl_pipe", "dl_hung" }
    /\ ~Happened("cancelRequested")
    /\ Log(<< Ev("cancelRequested") >>)
    /\ UNCHANGED << fe, argv, cfg, pc, cli, ed, opts, authState, call, stderr, exits,
                    secret, pending, thrown, fnIn, fnOut >>


\* ------------------------------------------------------- specifications
CommandLines == { << S_prog >> \o a : a \in SeqsUpTo(ArgTokens, MaxArgs) }

\* A secret store that holds a password, for one hub the empty one, for every user
\* and hub of the model.
SavedPasswords ==
    { << PasswordStorageKey(CSHubAddress(A_hostport), S_user), S_pw >>,
      << PasswordStorageKey(CSHubAddress(A_scheme), S_user), <<>> >> }

Init ==
    /\ fe \in { "hubcli", "httpcli", "full", "diff" }
    /\ argv \in (IF fe \in { "hubcli", "httpcli" } THEN CommandLines ELSE { <<>> })
    /\ cfg \in (IF fe \in { "full", "diff" } THEN EditorCfgs ELSE { BaseCfg })
    /\ secret \in (IF fe \in { "full", "diff" } THEN { {}, SavedPasswords } ELSE { {} })
    /\ pc = "start"
    /\ cli = NoCli
    /\ ed = EdInit
    /\ opts = NoOpts
    /\ authState = "none"
    /\ call = NoCall
    /\ stderr = <<>>
    /\ exits = <<>>
    /\ pending = <<>>
    /\ trace = <<>>
    /\ thrown = NoError
    /\ fnIn = <<>>
    /\ fnOut = <<>>

Next ==
    \/ HubMain \/ HubSignInThen \/ HubSignInCatch \/ HubFetchThen \/ HubFetchCatch
    \/ CliStreamEnd \/ CliStreamError
    \/ HttpMain \/ HttpReadFileDone \/ HttpRequestThen \/ HttpRequestCatch
    \/ ClientResolveCredential \/ ClientSignInRequest \/ ClientFetchSettle
    \/ ProviderInvoke \/ ProviderGetThen \/ ProviderGetRejected
    \/ ProviderPromptThen \/ ProviderPromptRejected \/ SecretOpApplied
    \/ EdStart \/ EdAddressEntered \/ EdUserEntered \/ EdSignInSettled
    \/ EdProjectsFetched \/ EdProjectsRefetched \/ EdProjectPicked
    \/ EdAnalysesFetched \/ EdBaselinePicked \/ EdAnalysisPicked \/ EdSaveAnswered
    \/ EdDownloadFetched \/ EdDestinationFinished \/ EdDestinationError \/ EdSourceError

Spec == Init /\ [][Next]_vars

\* The download on its own, from the save dialog on (lines 346-352 and 480-542): the
\* command is signed in and an analysis, with a baseline for the difference
\* command, was picked. The event loop runs a step whenever one is possible.
PickedAnalyses == { AnalysisPool[i] : i \in 1..Len(AnalysisPool) }

DlInit ==
    /\ fe \in { "full", "diff" }
    /\ pc = "save"
    /\ authState \in { "Authenticated", "Failed" }
    /\ \E a \in PickedAnalyses :
       \E b \in (IF fe = "diff" THEN PickedAnalyses ELSE { NoInfo }) :
       \E w \in { U, S_ws } :
         /\ ed = [EdInit EXCEPT !.hubAddressString = A_hostport,
                                !.hubAddressObject = CSHubAddress(A_hostport),
                                !.hubUserName = S_user, !.projectId = Id1,
                                !.hasClient = TRUE, !.signInSucceeded = TRUE,
                                !.analyses = Arr(AnalysisPool),
                                !.analysisInfo = a, !.baseAnalysisInfo = b]
         /\ cfg = [BaseCfg EXCEPT !.ws = w]
    /\ opts = [NoOpts EXCEPT !.hubuser = S_user]
    /\ argv = <<>> /\ secret = {} /\ cli = NoCli /\ call = NoCall /\ stderr = <<>>
    /\ exits = <<>> /\ pending = <<>> /\ trace = <<>> /\ thrown = NoError
    /\ fnIn = <<>> /\ fnOut = <<>>

DlNext ==
    \/ EdSaveAnswered \/ ClientFetchSettle \/ EdDownloadFetched
    \/ EdDestinationFinished \/ EdDestinationError \/ EdSourceError
    \/ EdDataWritten \/ EdCancelRequested

SpecDownload == DlInit /\ [][DlNext]_vars /\ WF_vars(DlNext)

\* The hub session on its own (specification 4.4), driven by a caller that calls
\* signIn() and the fetch operations in any order and in any session state; the
\* credentials come from files.
SignInEntryAlways(state) == "authenticate"

SignInEntry(state) ==
    IF state = "Authenticated" THEN "noop" ELSE "authenticate"

SessOptions ==
    { [NoOpts EXCEPT !.hubuser = S_user, !.hubcert = S_a \o S_dotcert,
                     !.hubkey = S_a \o S_dotkey],
      [NoOpts EXCEPT !.hubuser = S_user, !.hubpwfile = S_pwfile],
      NoOpts }

SessInit ==
    /\ fe = "session"
    /\ pc = "idle"
    /\ authState = "Unauthenticated"
    /\ opts \in SessOptions
    /\ ed = EdInit /\ secret = {}
    /\ argv = <<>> /\ cfg = BaseCfg /\ cli = NoCli /\ call = NoCall /\ stderr = <<>>
    /\ exits = <<>> /\ pending = <<>> /\ trace = <<>> /\ thrown = NoError
    /\ fnIn = <<>> /\ fnOut = <<>>

\* The caller calls signIn(): a no-op that succeeds at once on an authenticated
\* session, the start of an authentication otherwise.
SessSignIn ==
    /\ fe = "session" /\ call = NoCall
    /\ Count("signIn") < MaxSignIns
    /\ IF SignInEntry(authState) = "noop"
       THEN /\ \E shape \in { "message", "boolean" } : \E v \in SignInResults("ok", shape) :
                 /\ call' = [NoCall EXCEPT !.op = "signIn", !.stage = "settled",
                                           !.settled = "resolved", !.value = v]
                 /\ Log(<< Ev("signIn"), Settled("resolved", v) >>)
            /\ UNCHANGED authState
       ELSE /\ authState' = "Authenticating"
            /\ call' = [NoCall EXCEPT !.op = "signIn", !.stage = "resolve"]
            /\ Log(<< Ev("signIn") >>)
    /\ UNCHANGED << fe, argv, cfg, pc, cli, ed, opts, stderr, exits, secret, pending,
                    thrown, fnIn, fnOut >>

\* The fetch operations an authenticated caller of the session makes: those that
\* return the body as a stream.
StreamOps == { "fetch", "fetchSarifAnalysisStream", "fetchSarifAnalysisDifferenceStream" }

\* The caller calls a fetch operation: refused on the spot outside Authenticated,
\* a request of the session otherwise.
SessFetch ==
    /\ fe = "session"
    /\ \E op \in FetchOps :
         IF FetchGuard(authState) = "AuthRequired"
         THEN /\ Count("fetchRefused") < MaxRefusals
              /\ Log(<< Ev3("fetchRefused", authState, "AuthRequired") >>)
              /\ UNCHANGED call
         ELSE /\ call = NoCall
              /\ op \in StreamOps
              /\ Count("fetchCall") < MaxFetches
              /\ call' = [NoCall EXCEPT !.op = op, !.stage = "request"]
              /\ Log(<< Ev2("fetchCall", authState) >>)
    /\ UNCHANGED << fe, argv, cfg, pc, cli, ed, opts, authState, stderr, exits, secret,
                    pending, thrown, fnIn, fnOut >>

\* The caller took the result of the settled call.
SessCallTaken ==
    /\ fe = "session" /\ call.stage = "settled"
    /\ call' = NoCall
    /\ UNCHANGED << fe, argv, cfg, pc, cli, ed, opts, authState, stderr, exits, secret,
                    pending, trace, thrown, fnIn, fnOut >>

SessNext ==
    \/ SessSignIn \/ SessFetch \/ SessCallTaken
    \/ ClientResolveCredential \/ ClientSignInRequest \/ ClientFetchSettle

SpecSession == SessInit /\ [][SessNext]_vars

\* Key-path derivation on its own: the certificate path is any concatenation of up
\* to MaxPieces pieces, the key path is unset, empty or set.
PathPieces == { S_a, S_dotcert, S_dotpem, S_dotkey }
CertPaths == SeqsUpTo(PathPieces, MaxPieces) \ { <<>> }

RECURSIVE Flatten(_)
Flatten(ss) == IF ss = <<>> THEN <<>> ELSE Head(ss) \o Flatten(Tail(ss))

KeyInit ==
    /\ fe = "fn"
    /\ pc = "key"
    /\ fnIn \in { [cert |-> Flatten(c), key |-> k, ws |-> w]
                    : c \in CertPaths, k \in { U, <<>>, S_key }, w \in { U, S_ws } }
    /\ fnOut = <<>>
    /\ argv = <<>> /\ cfg = BaseCfg /\ secret = {} /\ cli = NoCli /\ ed = EdInit
    /\ opts = NoOpts /\ authState = "none" /\ call = NoCall /\ stderr = <<>>
    /\ exits = <<>> /\ pending = <<>> /\ trace = <<>> /\ thrown = NoError

\* Lines 175-198 applied to the configured certificate and key paths.
KeyApply ==
    /\ fe = "fn" /\ pc = "key"
    /\ LET L == [EdInit EXCEPT !.hubUserCertFilePath = fnIn.cert,
                               !.hubUserCertKeyFilePath = fnIn.key]
       IN  /\ fnOut' = << DeriveKeyPath(fnIn.cert, fnIn.key) >>
           /\ opts' = CredentialOptions(NoOpts, fnIn.ws, L, U).opts
    /\ pc' = "key_done"
    /\ UNCHANGED << fe, argv, cfg, cli, ed, authState, call, stderr, exits, secret,
                    pending, trace, thrown, fnIn >>

KeyNext == KeyApply

SpecKey == KeyInit /\ [][KeyNext]_vars

\* The variables a pure function under check leaves in their initial state.
FnRest ==
    /\ fe = "fn"
    /\ fnOut = <<>>
    /\ argv = <<>> /\ cfg = BaseCfg /\ secret = {} /\ cli = NoCli /\ ed = EdInit
    /\ opts = NoOpts /\ authState = "none" /\ call = NoCall /\ stderr = <<>>
    /\ exits = <<>> /\ pending = <<>> /\ trace = <<>> /\ thrown = NoError

\* The password storage key on its own: two hub addresses, each with or without a
\* protocol and a port, and two user names.
AddressText(protocol, hostname, port) ==
    (IF protocol # U THEN protocol \o << ":", "/", "/" >> ELSE <<>>)
    \o hostname
    \o (IF port # U THEN << ":" >> \o port ELSE <<>>)

HubAddressTexts ==
    { AddressText(pr, h, po) : pr \in { U, <<"s">> }, h \in { <<"h">>, <<"g">> },
                               po \in { U, <<"7">>, <<"8">> } }
UserNames == { <<"u">>, <<"v">> }

FmtInit ==
    /\ pc = "fmt"
    /\ fnIn \in { [a1 |-> a1, u1 |-> u1, a2 |-> a2, u2 |-> u2]
                    : a1 \in HubAddressTexts, u1 \in UserNames,
                      a2 \in HubAddressTexts, u2 \in UserNames }
    /\ FnRest

\* Lines 157-174 applied to each of the two hub addresses and user names.
FmtApply ==
    /\ fe = "fn" /\ pc = "fmt"
    /\ fnOut' = << PasswordStorageKey(CSHubAddress(fnIn.a1), fnIn.u1),
                   PasswordStorageKey(CSHubAddress(fnIn.a2), fnIn.u2) >>
    /\ pc' = "fmt_done"
    /\ UNCHANGED << fe, argv, cfg, cli, ed, opts, authState, call, stderr, exits, secret,
                    pending, trace, thrown, fnIn >>

FmtNext == FmtApply

SpecFmt == FmtInit /\ [][FmtNext]_vars

\* errorToString on its own. A value is a record: its kind (typeof, with null and
\* Error apart), the text of a string, of an Error's message or of what an object's
\* toString() returns, the number, an Error's name and code, and whether an object
\* has a toString method (an object without prototype has none).
ErrValue(kind, text, n, code, hasToString) ==
    [ kind |-> kind, text |-> text, n |-> n, name |-> <<"E">>, code |-> code,
      hasToString |-> hasToString ]

S_m == <<"m">>
S_default == <<"d">>

ErrorValues ==
    { ErrValue(k, <<>>, 0, U, TRUE) : k \in { "undefined", "null", "boolean", "symbol" } }
    \cup { ErrValue("string", t, 0, U, TRUE) : t \in { <<>>, S_m } }
    \cup { ErrValue("number", <<>>, n, U, TRUE) : n \in { 0, 7, 12 } }
    \cup { ErrValue("error", t, 0, c, TRUE) : t \in { <<>>, S_m }, c \in { U, <<"C">> } }
    \cup { ErrValue("object", S_m, 0, U, TRUE), ErrValue("object", <<>>, 0, U, FALSE) }

DigitOf(d) == << CHOOSE c \in Digits : c = ToString(d) >>

\* Number.prototype.toString of a natural number.
RECURSIVE NatToString(_)
NatToString(n) ==
    IF n < 10 THEN DigitOf(n) ELSE NatToString(n \div 10) \o DigitOf(n % 10)

Returned(v) == [ threw |-> FALSE, value |-> v ]
ThrewTypeError == [ threw |-> TRUE, value |-> <<>> ]

\* Lines 61-106.
errorToString(e, verbose, message) ==
    IF e.kind = "undefined" THEN Returned(<< "<UNDEFINED>" >>)
    ELSE IF e.kind = "null" THEN Returned(<< "<NULL>" >>)
    ELSE IF e.kind = "string" THEN Returned(e.text)
    ELSE IF e.kind = "number" THEN Returned(NatToString(e.n))
    ELSE IF e.kind = "error"
    THEN LET m0 == e.text
             m1 == IF e.code # U THEN e.code \o << " " >> \o m0 ELSE m0
         IN  IF verbose = "true" THEN Returned(e.name \o << ":", " " >> \o m1)
             ELSE Returned(m0)
    ELSE IF e.kind = "object"
    THEN (IF e.hasToString THEN Returned(e.text) ELSE ThrewTypeError)
    ELSE Returned(IF message # U THEN message ELSE <<>>)

ErrInit ==
    /\ pc = "err"
    /\ fnIn \in { [e |-> e, verbose |-> v, message |-> msg]
                    : e \in ErrorValues, v \in { "undefined", "true", "false" },
                      msg \in { U, <<>>, S_default } }
    /\ FnRest

ErrApply ==
    /\ fe = "fn" /\ pc = "err"
    /\ fnOut' = << errorToString(fnIn.e, fnIn.verbose, fnIn.message) >>
    /\ pc' = "err_done"
    /\ UNCHANGED << fe, argv, cfg, cli, ed, opts, authState, call, stderr, exits, secret,
                    pending, trace, thrown, fnIn >>

ErrNext == ErrApply

SpecErr == ErrInit /\ [][ErrNext]_vars

\* replaceInvalidFileNameChars on its own. The pattern "/\\?%*:|\"<>" is compiled as
\* a regular expression, not as a set of characters: it reads  /  \?  %*  :  or
\* "<>  , that is a slash, a question mark, any number of percent signs and a
\* colon, or else the three characters "<> in a row.
InvalidChars == { "/", "\\", "?", "%", "*", ":", "|", "\"", "<", ">" }
FileChars == InvalidChars \cup { "a" }

\* The number of "%" from position i on.
RECURSIVE PercentRun(_, _)
PercentRun(s, i) ==
    IF i <= Len(s) /\ s[i] = "%" THEN 1 + PercentRun(s, i + 1) ELSE 0

\* Length of the match of invalidCharRegExp at position i of s; 0 when there is none.
MatchLength(s, i) ==
    LET k == PercentRun(s, i + 2)
    IN  IF /\ i + 2 + k <= Len(s)
           /\ s[i] = "/" /\ s[i + 1] = "?" /\ s[i + 2 + k] = ":"
        THEN 3 + k
        ELSE IF i + 2 <= Len(s) /\ SubSeq(s, i, i + 2) = << "\"", "<", ">" >>
        THEN 3
        ELSE 0

\* String.prototype.replace with a global regular expression (line 112).
RECURSIVE ReplaceMatches(_, _, _)
ReplaceMatches(s, i, replacement) ==
    IF i > Len(s) THEN <<>>
    ELSE LET n == MatchLength(s, i)
         IN  IF n > 0 THEN replacement \o ReplaceMatches(s, i + n, replacement)
             ELSE << s[i] >> \o ReplaceMatches(s, i + 1, replacement)

\* Lines 109-114; an omitted replacement is "_".
replaceInvalidFileNameChars(s, replacement) ==
    ReplaceMatches(s, 1, IF replacement = U THEN << "_" >> ELSE replacement)

FileInit ==
    /\ pc = "file"
    /\ fnIn \in { [s |-> n, replacement |-> r]
                    : n \in SeqsUpTo(FileChars, MaxName), r \in { U, << "-" >>, <<>> } }
    /\ FnRest

FileApply ==
    /\ fe = "fn" /\ pc = "file"
    /\ fnOut' = << replaceInvalidFileNameChars(fnIn.s, fnIn.replacement) >>
    /\ pc' = "file_done"
    /\ UNCHANGED << fe, argv, cfg, cli, ed, opts, authState, call, stderr, exits, secret,
                    pending, trace, thrown, fnIn >>

FileNext == FileApply

SpecFile == FileInit /\ [][FileNext]_vars


\* ------------------------------------------------------- readTextStream
\* A stream delivers string chunks (the units are characters) or Buffer chunks (the
\* units are bytes). The bytes are UTF-8: "a" is a one-byte character, "L" "T" the
\* two bytes of one character, written "E" once decoded; a lead byte without its
\* continuation, or a continuation on its own, decodes to the replacement
\* character, written "?".
RECURSIVE Utf8ToString(_)
Utf8ToString(b) ==
    IF b = <<>> THEN <<>>
    ELSE IF b[1] = "L" /\ Len(b) >= 2 /\ b[2] = "T"
         THEN << "E" >> \o Utf8ToString(SubSeq(b, 3, Len(b)))
    ELSE IF b[1] \in { "L", "T" } THEN << "?" >> \o Utf8ToString(Tail(b))
    ELSE << b[1] >> \o Utf8ToString(Tail(b))

\* What Array.prototype.join makes of one element: a string as it is, a Buffer
\* through its toString().
ChunkToString(kind, chunk) == IF kind = "buffer" THEN Utf8ToString(chunk) ELSE chunk

\* chunks.join('') (line 150).
RECURSIVE JoinChunks(_, _)
JoinChunks(kind, chunks) ==
    IF chunks = <<>> THEN <<>>
    ELSE ChunkToString(kind, Head(chunks)) \o JoinChunks(kind, Tail(chunks))

WellFormed(b) == \A i \in 1..Len(Utf8ToString(b)) : Utf8ToString(b)[i] # "?"

StringChunks == SeqsUpTo({ "a", "b" }, MaxChunkLen)
BufferChunks == SeqsUpTo({ "a", "L", "T" }, MaxChunkLen)
TextStreams ==
    { [kind |-> "string", chunks |-> c] : c \in SeqsUpTo(StringChunks, MaxChunks) }
    \cup { [kind |-> "buffer", chunks |-> c]
             : c \in { d \in SeqsUpTo(BufferChunks, MaxChunks) : WellFormed(Flatten(d)) } }

\* The 'data' listener up to the choice of pushChunk (lines 129-144).
PushChunk(hasMax, maxLength, outLength, chunk) ==
    IF ~hasMax THEN [ defined |-> TRUE, chunk |-> chunk ]
    ELSE IF outLength >= maxLength THEN [ defined |-> FALSE, chunk |-> <<>> ]
    ELSE IF Len(chunk) + outLength < maxLength THEN [ defined |-> TRUE, chunk |-> chunk ]
    ELSE [ defined |-> TRUE, chunk |-> SubSeq(chunk, 1, maxLength - outLength) ]

\* if (pushChunk): undefined and the empty string are falsy, a Buffer never is.
PushChunkTruthy(kind, p) == p.defined /\ (kind = "buffer" \/ p.chunk # <<>>)

ReadState0 ==
    [ chunks |-> <<>>, outLength |-> 0, delivered |-> 0, settled |-> "pending",
      by |-> "none", text |-> <<>> ]

ReadInit ==
    /\ fe = "fn" /\ pc = "read_start"
    /\ \E st \in TextStreams, hasMax \in BOOLEAN, maxLength \in 0..MaxLimit,
          readable \in BOOLEAN, ending \in { "end", "error" } :
         /\ hasMax \/ maxLength = 0
         /\ readable \/ (st.chunks = <<>> /\ ending = "end")
         /\ fnIn = [ kind |-> st.kind, stream |-> st.chunks, hasMax |-> hasMax,
                     maxLength |-> maxLength, readable |-> readable,
                     ending |-> ending ]
    /\ fnOut = ReadState0
    /\ argv = <<>> /\ cfg = BaseCfg /\ secret = {} /\ cli = NoCli /\ ed = EdInit
    /\ opts = NoOpts /\ authState = "none" /\ call = NoCall /\ stderr = <<>>
    /\ exits = <<>> /\ pending = <<>> /\ trace = <<>> /\ thrown = NoError

ReadRest ==
    UNCHANGED << fe, argv, cfg, cli, ed, opts, authState, call, stderr, exits, secret,
                 pending, trace, thrown, fnIn >>

\* The executor of the promise (lines 122-128): a stream that is not readable
\* rejects at once and delivers nothing; the listeners are registered either way.
ReadStart ==
    /\ fe = "fn" /\ pc = "read_start"
    /\ IF fnIn.readable
       THEN /\ pc' = "reading"
            /\ fnOut' = fnOut
       ELSE /\ pc' = "read_closed"
            /\ fnOut' = [fnOut EXCEPT !.settled = "rejected", !.by = "notReadable"]
    /\ ReadRest

\* One 'data' event (lines 128-148).
ReadData ==
    /\ fe = "fn" /\ pc = "reading"
    /\ fnOut.delivered < Len(fnIn.stream)
    /\ LET chunk == fnIn.stream[fnOut.delivered + 1]
           p == PushChunk(fnIn.hasMax, fnIn.maxLength, fnOut.outLength, chunk)
       IN  fnOut' = IF PushChunkTruthy(fnIn.kind, p)
                    THEN [fnOut EXCEPT !.delivered = @ + 1,
                                       !.outLength = @ + Len(p.chunk),
                                       !.chunks = Append(@, p.chunk)]
                    ELSE [fnOut EXCEPT !.delivered = @ + 1]
    /\ pc' = pc
    /\ ReadRest

\* The 'end' event (lines 149-151).
ReadEnd ==
    /\ fe = "fn" /\ pc = "reading"
    /\ fnOut.delivered = Len(fnIn.stream) /\ fnIn.ending = "end"
    /\ fnOut' = [fnOut EXCEPT !.settled = "resolved", !.by = "end",
                              !.text = JoinChunks(fnIn.kind, fnOut.chunks)]
    /\ pc' = "read_closed"
    /\ ReadRest

\* The 'error' event (line 127).
ReadError ==
    /\ fe = "fn" /\ pc = "reading"
    /\ fnOut.delivered = Len(fnIn.stream) /\ fnIn.ending = "error"
    /\ fnOut' = [fnOut EXCEPT !.settled = "rejected", !.by = "error"]
    /\ pc' = "read_closed"
    /\ ReadRest

ReadNext == ReadStart \/ ReadData \/ ReadEnd \/ ReadError

SpecRead == ReadInit /\ [][ReadNext]_vars


\* ================================================================ claims
Cli == fe \in { "hubcli", "httpcli" }
IsFetch(e) == EvName(e) \in FetchOps
FetchCount == Cardinality({ i \in 1..Len(trace) : IsFetch(trace[i]) })
IsSettled(e) == EvName(e) = "signInSettled"

\* What each front end reads as a successful sign-in, value by value: the hub CLI a
\* value that is no non-empty message, the editor command a true flag.
ReadAsSuccessBy(frontEnd, e) ==
    /\ IsSettled(e)
    /\ e[2] = "resolved"
    /\ IF frontEnd = "hubcli" THEN e[3] \in { V_undefined, V_empty, V_false }
       ELSE e[3] \in { V_true, V_message }

\* C1: in the hub CLI and in the editor command every hub fetch comes after a
\* signIn() that settled with what the front end reads as success, and a run whose
\* signIn() threw or was read as rejected has issued no fetch.
C1_FetchOnlyAfterSignIn ==
    fe \in { "hubcli", "full", "diff" } =>
        /\ \A i \in 1..Len(trace) :
             IsFetch(trace[i]) =>
                 \E j \in 1..(i - 1) : ReadAsSuccessBy(fe, trace[j])
        /\ (\E j \in 1..Len(trace) :
                IsSettled(trace[j]) /\ ~ReadAsSuccessBy(fe, trace[j]))
               => FetchCount = 0

C1_Witness ==
    /\ fe = "hubcli"
    /\ Happened("fetch")
    /\ \E j \in 1..Len(trace) : ReadAsSuccessBy(fe, trace[j])

\* The editor command has built its connection options.
OptionsBuilt ==
    /\ Editor
    /\ pc \notin { "start", "ask_address", "ask_user" }
    /\ thrown.text # "ParseError"

CertSchemeSet == opts.hubcert # U \/ opts.hubkey # U
FileSchemeSet == opts.hubpwfile # U
PromptSchemeSet == opts.hubpasswd

\* C2: the options the editor command builds carry at most one credential scheme,
\* chosen by precedence: the certificate pair when a certificate is configured,
\* else the password file when one is configured, else the interactive provider
\* when hub address, user name and storage key are known.
C2_OneCredentialScheme ==
    OptionsBuilt =>
        /\ ~(CertSchemeSet /\ FileSchemeSet)
        /\ ~(CertSchemeSet /\ PromptSchemeSet)
        /\ ~(FileSchemeSet /\ PromptSchemeSet)
        /\ ~Falsy(ed.hubUserCertFilePath)
               => (opts.hubcert # U /\ opts.hubkey # U)
        /\ (Falsy(ed.hubUserCertFilePath) /\ ~Falsy(ed.hubUserPasswordFilePath))
               => FileSchemeSet
        /\ (/\ Falsy(ed.hubUserCertFilePath) /\ Falsy(ed.hubUserPasswordFilePath)
            /\ ~Falsy(ed.hubAddressString) /\ ~Falsy(ed.hubUserName)
            /\ ed.passwordStorageKey # U)
               => PromptSchemeSet

C2_Witness ==
    /\ OptionsBuilt
    /\ ~Falsy(ed.hubUserCertFilePath) /\ ~Falsy(ed.hubUserPasswordFilePath)
    /\ ~Falsy(ed.hubUserName) /\ ed.passwordStorageKey # U
    /\ CertSchemeSet

PasswordInputCancelled ==
    \E i \in 1..Len(trace) : EvName(trace[i]) = "passwordInput" /\ trace[i][2] = U

StorePending == \E i \in 1..Len(pending) : pending[i][1] = "store"

\* C3: when the password input box is dismissed, the provider rejects, the sign-in
\* fails and the command throws the sign-in error, no secretStorage.store is issued,
\* and the store holds no password under the storage key once the command ended.
C3_CancelledPromptStoresNothing ==
    (Editor /\ PasswordInputCancelled) =>
        /\ \E j \in 1..Len(trace) :
             IsSettled(trace[j]) /\ trace[j][2] = "rejected"
                /\ trace[j][3] = "User cancelled password input."
        /\ authState = "Failed"
        /\ ~ed.signInSucceeded
        /\ ~Happened("secretStore")
        /\ ~StorePending
        /\ pc \in { "signin", "threw" }
        /\ pc = "threw" =>
             /\ thrown.text = "CodeSonar hub sign-in error"
             /\ SecretGet(ed.passwordStorageKey) = U

C3_Witness ==
    /\ Editor /\ PasswordInputCancelled
    /\ pc = "threw"
    /\ pending = <<>>

\* C4: the secret-store lookup and the password input box come only after signIn()
\* was called: building the options and constructing the client do neither.
C4_LazyPasswordResolution ==
    Editor =>
        \A i \in 1..Len(trace) :
            EvName(trace[i]) \in { "secretGet", "promptPassword", "passwordInput" }
                => \E j \in 1..(i - 1) : EvName(trace[j]) = "signIn"

C4_Witness ==
    /\ Editor
    /\ Happened("secretGet") /\ Happened("promptPassword")

SettledValue == trace[FirstIndex("signInSettled")][3]
SignInResolved ==
    /\ Happened("signInSettled")
    /\ trace[FirstIndex("signInSettled")][2] = "resolved"

\* C5: the hub CLI reads a non-empty (truthy) resolved value as a rejection message -
\* it writes "Hub sign-in rejected", reports status 1 and fetches nothing - and
\* fetches on any other value; the editor command reads the value as a flag - a
\* falsy value throws "Access forbidden", a truthy one goes on to the fetches.
C5_TwoReadingsOfSignIn ==
    (SignInResolved /\ pc # "signin") =>
        /\ (fe = "hubcli" /\ SettledValue \in { V_message, V_true }) =>
              /\ stderr = << ErrMsg("Hub sign-in rejected", << SettledValue >>) >>
              /\ exits = << 1 >>
              /\ FetchCount = 0
        /\ (fe = "hubcli" /\ SettledValue \in { V_undefined, V_empty, V_false }) =>
              /\ Count("fetch") = 1
              /\ \A i \in 1..Len(stderr) : stderr[i].text # "Hub sign-in rejected"
        /\ (Editor /\ SettledValue \in { V_undefined, V_empty, V_false }) =>
              /\ pc = "threw"
              /\ thrown = ErrMsg("CodeSonar hub sign-in error", << "Access forbidden" >>)
              /\ FetchCount = 0
        /\ (Editor /\ SettledValue \in { V_message, V_true }) =>
              /\ thrown.text # "CodeSonar hub sign-in error"
              /\ FetchCount >= 1

C5_Witness ==
    /\ Editor
    /\ SignInResolved /\ SettledValue = V_undefined
    /\ thrown = ErrMsg("CodeSonar hub sign-in error", << "Access forbidden" >>)


\* The flags each CLI knows; every one of them takes the next argument as its value.
KnownFlags ==
    IF fe = "hubcli"
    THEN { S_cacert, S_hubuser1, S_hubuser2, S_hubpwfile1, S_hubpwfile2,
           S_hubcert1, S_hubcert2, S_hubkey1, S_hubkey2 }
    ELSE { S_cacert }

RequiredPositionals == IF fe = "hubcli" THEN 2 ELSE 1

\* argv[i] is taken as the value of the flag before it.
RECURSIVE IsFlagValue(_)
IsFlagValue(i) ==
    /\ i > 2
    /\ argv[i - 1] \in KnownFlags
    /\ ~IsFlagValue(i - 1)

ArgIndexes == 2..Len(argv)
LooksLikeOption(i) == StartsWith(argv[i], S_dash)
UnknownDashArgument == \E i \in ArgIndexes : LooksLikeOption(i) /\ argv[i] \notin KnownFlags
UnrecognizedOption ==
    \E i \in ArgIndexes :
        LooksLikeOption(i) /\ argv[i] \notin KnownFlags /\ ~IsFlagValue(i)
Positionals == { i \in ArgIndexes : ~LooksLikeOption(i) /\ ~IsFlagValue(i) }
SurplusPositional == Cardinality(Positionals) > RequiredPositionals
MissingPositional == Cardinality(Positionals) < RequiredPositionals

\* main reported a usage error and started nothing.
UsageErrorReported ==
    /\ pc = "done"
    /\ exits = << 2 >>
    /\ Len(stderr) = 1
    /\ stderr[1].text \in { "Unrecognized option", "Unexpected argument",
                            "Missing Hub Address argument.", "Missing URL argument." }
    /\ trace = <<>>
    /\ authState = "none"

\* C6 as stated: any argument that starts with '-' and is no known flag, a surplus
\* positional argument or a missing one ends main with an error message and
\* onExit(2), nothing started.
C6_AnyDashArgumentIsUsageError ==
    (Cli /\ pc # "start"
         /\ (UnknownDashArgument \/ SurplusPositional \/ MissingPositional))
        => UsageErrorReported

\* C6, amended: an argument that starts with '-', is no known flag and is not taken
\* as the value of the flag before it, a surplus positional argument or a missing
\* one ends main with an error message and onExit(2), nothing started.
C6_UsageError ==
    (Cli /\ pc # "start"
         /\ (UnrecognizedOption \/ SurplusPositional \/ MissingPositional))
        => UsageErrorReported

C6_Witness ==
    /\ fe = "hubcli" /\ pc = "done"
    /\ UnrecognizedOption /\ ~SurplusPositional /\ ~MissingPositional
    /\ exits = << 2 >>

HubRunValid == fe = "hubcli" /\ cli.errorMessage = NoError /\ pc # "start"
SignInThrew ==
    \E j \in 1..Len(trace) : IsSettled(trace[j]) /\ trace[j][2] = "rejected"
SignInRejected ==
    \E j \in 1..Len(trace) :
        IsSettled(trace[j]) /\ trace[j][2] = "resolved" /\ trace[j][3] = V_message
FetchFailed == (pc = "done" /\ Happened("fetch") /\ ~Happened("pipe")) \/ Happened("streamError")

\* C7: a hub CLI run with valid arguments reports status 1 when the sign-in threw or
\* was rejected or the fetch failed, a failure during the transfer of the body
\* included, and reports status 0 only when the fetch succeeded.
C7_ExitStatus ==
    (HubRunValid /\ pc = "done") =>
        /\ (SignInThrew \/ SignInRejected \/ FetchFailed) => exits = << 1 >>
        /\ (\E i \in 1..Len(exits) : exits[i] = 0)
               => (Happened("streamEnd") /\ ~Happened("streamError"))

\* C8: one run calls signIn() at most once and shows the password prompt at most
\* once; after a sign-in that threw or was read as rejected neither happens again.
C8_NoSignInRetry ==
    fe \in { "hubcli", "full", "diff" } =>
        /\ Count("signIn") <= 1
        /\ Count("promptPassword") <= 1
        /\ Count("secretGet") <= 1
        /\ Count("signInRequest") <= 1
        /\ \A j \in 1..Len(trace) :
             (IsSettled(trace[j]) /\ ~ReadAsSuccessBy(fe, trace[j])) =>
                 \A i \in (j + 1)..Len(trace) :
                     EvName(trace[i]) \notin { "signIn", "promptPassword", "secretGet",
                                               "signInRequest" }
        /\ (pc \in { "done", "threw" } /\ authState = "Failed") => call.op # "signIn"

C8_Witness ==
    /\ Editor /\ pc = "threw"
    /\ authState = "Failed"
    /\ Happened("promptPassword")
    /\ Count("signIn") = 1

SingleFetches == Count("fetchSarifAnalysisStream")
DifferenceFetches == Count("fetchSarifAnalysisDifferenceStream")
DownloadStarted == Happened("createWriteStream")

\* C9: a download issues exactly one SARIF fetch, the difference fetch of (analysis,
\* baseline) when a baseline was resolved and the single-analysis fetch otherwise;
\* the full download never issues the difference fetch, the diff download never the
\* single-analysis fetch.
C9_DifferenceFetchIffBaseline ==
    Editor =>
        /\ SingleFetches + DifferenceFetches = (IF DownloadStarted THEN 1 ELSE 0)
        /\ DownloadStarted =>
             /\ (ed.baseAnalysisInfo # NoInfo) <=> (DifferenceFetches = 1)
             /\ \A i \in 1..Len(trace) :
                  EvName(trace[i]) = "fetchSarifAnalysisDifferenceStream" =>
                      /\ trace[i][2] = ed.analysisInfo.id
                      /\ trace[i][3] = ed.baseAnalysisInfo.id
             /\ \A i \in 1..Len(trace) :
                  EvName(trace[i]) = "fetchSarifAnalysisStream" =>
                      trace[i][2] = ed.analysisInfo.id
        /\ fe = "full" => DifferenceFetches = 0
        /\ fe = "diff" => SingleFetches = 0

C9_Witness ==
    /\ fe = "diff"
    /\ DifferenceFetches = 1
    /\ ed.baseAnalysisInfo # NoInfo
    /\ ed.baseAnalysisInfo.id # ed.analysisInfo.id

KeyDerived == fe = "fn" /\ pc = "key_done"
Stem(path, suffix) == SubSeq(path, 1, Len(path) - Len(suffix))
S_dotcertpem == <<".","c","e","r","t",".","p","e","m">>
S_dotkeypem == <<".","k","e","y",".","p","e","m">>

\* C10: without a configured key path, a certificate path ending in ".cert" yields
\* the path with ".key" in place of that suffix, one ending in ".cert.pem" the path
\* with ".key.pem" in place of that suffix, any other the path with ".key" appended;
\* a configured key path is used as it is.
C10_KeyPathDerivation ==
    KeyDerived =>
        LET cert == fnIn.cert
            derived == fnOut[1]
        IN  /\ (fnIn.key = U /\ EndsWith(cert, S_dotcert))
                   => derived = Stem(cert, S_dotcert) \o S_dotkey
            /\ (fnIn.key = U /\ EndsWith(cert, S_dotcertpem))
                   => derived = Stem(cert, S_dotcertpem) \o S_dotkeypem
            /\ (fnIn.key = U /\ ~EndsWith(cert, S_dotcert) /\ ~EndsWith(cert, S_dotcertpem))
                   => derived = cert \o S_dotkey
            /\ fnIn.key # U => derived = fnIn.key
            /\ opts.hubkey = resolveFilePath(fnIn.ws, derived)
            /\ opts.hubcert = resolveFilePath(fnIn.ws, cert)

C10_Witness ==
    /\ KeyDerived
    /\ fnIn.key = U
    /\ EndsWith(fnIn.cert, S_dotcertpem)
    /\ Len(fnIn.cert) > Len(S_dotcertpem)


\* C11: once cancellation of the download progress is requested, no further data
\* is written to the destination file and the download is not completed.
C11_CancelStopsTransfer ==
    Editor =>
        \A i \in 1..Len(trace) : \A j \in 1..Len(trace) :
            (i < j /\ EvName(trace[i]) = "cancelRequested")
                => EvName(trace[j]) \notin { "write", "showInformationMessage" }

DownloadSettled == pc \in { "done", "threw" }

\* C12: after an 'error' event of the response stream the promise of
\* downloadSarifResults eventually rejects, and every download that was started
\* eventually resolves or rejects.
C12_SourceErrorSurfaced ==
    /\ (Editor /\ Happened("streamError")) ~> (pc = "threw")
    /\ (Editor /\ Happened("createWriteStream")) ~> DownloadSettled


LookupResults == { j \in 1..Len(trace) : EvName(trace[j]) = "secretGetResult" }

\* C13: when the lookup of the storage key returns a password the provider resolves
\* with exactly that password, the password input box is not shown and
\* secretStorage.store is not called; the input box is shown only after a lookup
\* that returned no password.
C13_SavedPasswordShortCircuits ==
    Editor =>
        /\ \A j \in LookupResults :
              trace[j][2] # U =>
                  /\ \E k \in 1..Len(trace) :
                        k > j /\ trace[k] = Ev2("providerResolved", trace[j][2])
                  /\ \A k \in 1..Len(trace) :
                        EvName(trace[k]) = "providerResolved" => trace[k][2] = trace[j][2]
                  /\ ~Happened("promptPassword")
                  /\ ~Happened("secretStore")
        /\ \A k \in 1..Len(trace) :
              EvName(trace[k]) = "promptPassword" =>
                  (k > 1 /\ trace[k - 1] = Ev2("secretGetResult", U))

C13_Witness ==
    /\ Editor /\ pc \in { "done", "threw" }
    /\ \E j \in LookupResults : trace[j][2] = <<>>
    /\ Happened("providerResolved")


Raises == { "ConnectionError", "CredentialResolutionError",
            "User cancelled password input.", "showInputBox failed" }
RejectionResults == { V_message, V_false }
SettledAfter(j) == j < Len(trace) /\ IsSettled(trace[j + 1])

\* C14: a sign-in the hub declines settles normally with a rejection result and
\* never raises; a sign-in the hub did not answer, a cancelled prompt and an
\* unreadable credential file raise; in both cases the session is Failed.
C14_RejectionIsNotAnException ==
    /\ \A j \in 1..Len(trace) :
          /\ trace[j] = Ev2("signInRequest", "declined") =>
                /\ SettledAfter(j)
                /\ trace[j + 1][2] = "resolved"
                /\ trace[j + 1][3] \in RejectionResults
          /\ trace[j] = Ev2("signInRequest", "unreachable") =>
                (SettledAfter(j) /\ trace[j + 1] = Settled("rejected", "ConnectionError"))
          /\ trace[j] = Ev2("passwordInput", U) =>
                (SettledAfter(j)
                 /\ trace[j + 1] = Settled("rejected", "User cancelled password input."))
          /\ (IsSettled(trace[j]) /\ trace[j][2] = "rejected") => trace[j][3] \in Raises
    /\ (call.op = "signIn" /\ call.stage = "settled") =>
          /\ call.settled = "rejected" => (authState = "Failed" /\ call.error \in Raises)
          /\ (call.settled = "resolved" /\ authState # "Authenticated") =>
                (authState = "Failed" /\ call.value \in RejectionResults)

C14_Witness ==
    /\ Editor
    /\ \E j \in 1..Len(trace) : trace[j] = Ev2("signInRequest", "declined")
    /\ call.op = "signIn" /\ call.stage = "settled" /\ call.settled = "resolved"
    /\ call.value = V_false /\ authState = "Failed"


NewEvents == { trace'[k] : k \in (Len(trace) + 1)..Len(trace') }
NewNames == { EvName(e) : e \in NewEvents }
OutsideAuthenticated == { "Unauthenticated", "Authenticating", "Failed" }

\* A step taken outside Authenticated starts no request and refuses a fetch with
\* AuthRequired, leaving the session as it is.
RefusesFetch ==
    authState \in OutsideAuthenticated =>
        /\ "hubRequest" \notin NewNames
        /\ "fetchCall" \notin NewNames
        /\ "fetchRefused" \in NewNames =>
              /\ NewEvents = { Ev3("fetchRefused", authState, "AuthRequired") }
              /\ authState' = authState
              /\ call' = call
        /\ (call.op \in FetchOps /\ call.stage = "request" /\ call' # call) =>
              /\ call'.stage = "settled" /\ call'.settled = "rejected"
              /\ call'.error = "AuthRequired"
              /\ authState' = authState

\* C15: in a session state other than Authenticated a fetch operation fails at once
\* with AuthRequired, no request goes to the hub and the session state stays as
\* it is.
C15_FetchNeedsAuthenticated == [][RefusesFetch]_vars

C15_Witness ==
    /\ fe = "session"
    /\ \A st \in OutsideAuthenticated :
          \E j \in 1..Len(trace) : trace[j] = Ev3("fetchRefused", st, "AuthRequired")
    /\ ~Happened("hubRequest")

Confirmations ==
    Cardinality({ j \in 1..Len(trace) : trace[j] = Ev2("signInRequest", "confirmed") })

\* A step of an authenticated session leaves it Authenticated and sends no sign-in
\* request; a signIn() call is settled in the step that makes it.
SignInIsNoOp ==
    (fe = "session" /\ authState = "Authenticated") =>
        /\ authState' = "Authenticated"
        /\ "signInRequest" \notin NewNames
        /\ "signIn" \in NewNames =>
              /\ call'.op = "signIn" /\ call'.stage = "settled"
              /\ call'.settled = "resolved"
              /\ \E shape \in { "message", "boolean" } :
                    call'.value \in SignInResults("ok", shape)

\* C16: signIn() on an authenticated session succeeds at once, resolves no
\* credential, sends no sign-in request and leaves the session Authenticated; the
\* session becomes Authenticated at most once.
C16_SignInIdempotent ==
    /\ [](fe = "session" => Confirmations <= 1)
    /\ [][SignInIsNoOp]_vars

C16_Witness ==
    /\ fe = "session" /\ authState = "Authenticated"
    /\ Count("signIn") = 2 /\ Count("signInRequest") = 1
    /\ call.op = "signIn" /\ call.stage = "settled" /\ call.settled = "resolved"


\* C17: the password storage keys of two (hub address, user name) pairs that differ
\* in hostname, protocol, port or user name are different.
C17_StorageKeyPerHubAndUser ==
    (fe = "fn" /\ pc = "fmt_done") =>
        LET h1 == CSHubAddress(fnIn.a1)
            h2 == CSHubAddress(fnIn.a2)
        IN  (h1.hostname # h2.hostname \/ h1.protocol # h2.protocol
             \/ h1.port # h2.port \/ fnIn.u1 # fnIn.u2)
                => fnOut[1] # fnOut[2]


\* The values that carry a message, and the message they carry.
HasMessage(e) ==
    e.kind \in { "string", "number", "error" } \/ (e.kind = "object" /\ e.hasToString)
MessageOf(e) == IF e.kind = "number" THEN NatToString(e.n) ELSE e.text

\* C18: errorToString returns a message extracted from the error value, and for a
\* value no message can be extracted from it returns the `message` option, or the
\* empty string when the option is not given.
C18_ErrorToStringFallsBack ==
    (fe = "fn" /\ pc = "err_done") =>
        LET r == fnOut[1]
        IN  /\ ~r.threw
            /\ IF HasMessage(fnIn.e)
               THEN EndsWith(r.value, MessageOf(fnIn.e))
               ELSE r.value = (IF fnIn.message # U THEN fnIn.message ELSE <<>>)


\* The string with every invalid character replaced and every other one kept.
RECURSIVE Sanitized(_, _)
Sanitized(s, replacement) ==
    IF s = <<>> THEN <<>>
    ELSE (IF Head(s) \in InvalidChars THEN replacement ELSE << Head(s) >>)
         \o Sanitized(Tail(s), replacement)

\* C19: the result of replaceInvalidFileNameChars holds none of the characters
\* / \ ? % * : | " < > : each is replaced by the replacement string ("_" when
\* omitted) and every other character is kept in order.
C19_NoInvalidFileNameChars ==
    (fe = "fn" /\ pc = "file_done") =>
        LET replacement == IF fnIn.replacement = U THEN << "_" >> ELSE fnIn.replacement
        IN  /\ \A i \in 1..Len(fnOut[1]) : fnOut[1][i] \notin InvalidChars
            /\ fnOut[1] = Sanitized(fnIn.s, replacement)


SignInNotSucceeded ==
    Editor /\ pc = "threw" /\ thrown.text = "CodeSonar hub sign-in error"

\* C20: when the sign-in of the editor command did not succeed and a storage key
\* exists, the password under the key is deleted: once the pending operations of
\* the secret store have completed the store holds no password for the key.
C20_FailedSignInForgetsPassword ==
    (SignInNotSucceeded /\ ed.passwordStorageKey # U) =>
        /\ Happened("secretDelete")
        /\ pending = <<>> => \A e \in secret : e[1] # ed.passwordStorageKey


ProviderInvoked == Happened("secretGet")
LookupPending == call.op = "signIn" /\ call.stage = "prov_get"
PromptPending == call.op = "signIn" /\ call.stage = "prov_prompt"
ProviderSettled ==
    \/ Happened("providerResolved")
    \/ \E j \in 1..Len(trace) :
          /\ IsSettled(trace[j]) /\ trace[j][2] = "rejected"
          /\ trace[j][3] \in { "User cancelled password input.", "showInputBox failed" }

\* C21: once the lookup in the secret store and, if it was shown, the password
\* input box have settled, the promise of the interactive provider is resolved or
\* rejected, also when the lookup failed.
C21_ProviderSettles ==
    (Editor /\ ProviderInvoked /\ ~LookupPending /\ ~PromptPending) => ProviderSettled

SarifFetchRejected ==
    /\ Editor /\ pc = "threw"
    /\ Happened("fetchSarifAnalysisStream") \/ Happened("fetchSarifAnalysisDifferenceStream")
    /\ ~Happened("pipe")

\* C22: when the SARIF fetch rejects, the file at the destination path is as it was
\* before the command ran: it was neither created nor truncated.
C22_RejectedFetchLeavesFile ==
    SarifFetchRejected => (ed.destFile = "untouched" /\ ~Happened("createWriteStream"))


\* What the stream carries as a whole, as units and as text.
StreamUnits == Flatten(fnIn.stream)
FirstUnits(n) == SubSeq(StreamUnits, 1, IF n < Len(StreamUnits) THEN n ELSE Len(StreamUnits))
ReadResolved == fe = "fn" /\ pc = "read_closed" /\ fnOut.settled = "resolved"

\* C23: with a maxLength readTextStream never holds more than maxLength units; the
\* text it resolves to is the first min(maxLength, total length) units of the
\* chunks in arrival order, the whole stream when maxLength is undefined; and it
\* resolves on the 'end' event only.
C23_ReadTextStream ==
    /\ fnIn.hasMax => (fnOut.outLength <= fnIn.maxLength
                       /\ Len(Flatten(fnOut.chunks)) <= fnIn.maxLength)
    /\ fnOut.settled = "resolved" => fnOut.by = "end"
    /\ ReadResolved =>
         fnOut.text = ChunkToString(fnIn.kind,
                                    IF fnIn.hasMax THEN FirstUnits(fnIn.maxLength)
                                    ELSE StreamUnits)


BaselineDismissed ==
    fe = "diff" /\ \E j \in 1..Len(trace) : trace[j] = Ev2("baselinePicked", U)
AnalysisPickerShown ==
    \E j \in 1..Len(trace) : trace[j] = Ev2("showQuickPick", "Select an Analysis...")
SarifFetchIssued ==
    Happened("fetchSarifAnalysisStream") \/ Happened("fetchSarifAnalysisDifferenceStream")

\* C24: in the diff command a dismissed baseline picker is followed by no analysis
\* picker, no save dialog, no destination file and no SARIF fetch; and the analysis
\* picker is shown only when no baseline is needed or a baseline is there.
C24_NoBaselineNoDownload ==
    /\ BaselineDismissed =>
         /\ pc = "done"
         /\ ~AnalysisPickerShown
         /\ ~Happened("showSaveDialog")
         /\ ~Happened("createWriteStream") /\ ed.destFile = "untouched"
         /\ ~SarifFetchIssued
    /\ (Editor /\ AnalysisPickerShown) => (fe # "diff" \/ ed.baseAnalysisInfo # NoInfo)

C24_Witness == BaselineDismissed /\ pc = "done" /\ Len(ed.analyses.items) > 0


\* The baseline the configuration names: by id when the object form carries an id,
\* otherwise by a non-empty name.
CfgBaselineId == IF cfg.baseForm = "object" THEN cfg.baseId ELSE U
CfgBaselineName == IF cfg.baseForm \in { "string", "object" } THEN cfg.baseName ELSE U
BaselineMissing(l) ==
    IF CfgBaselineId # U THEN \A i \in 1..Len(l) : l[i].id # CfgBaselineId
    ELSE ~Falsy(CfgBaselineName) /\ \A i \in 1..Len(l) : l[i].name # CfgBaselineName
BaselinePickerShown ==
    \E j \in 1..Len(trace) :
        trace[j] = Ev2("showQuickPick", "Select a Baseline Analysis...")
NothingOffered ==
    /\ ~AnalysisPickerShown /\ ~BaselinePickerShown
    /\ ~Happened("showSaveDialog")
    /\ ~SarifFetchIssued /\ ed.destFile = "untouched"
FailsBaselineNotFound ==
    pc = "threw" /\ thrown = ErrMsg("Baseline analysis was not found", U)

\* C25 as stated: in the diff command, whenever the analysis listing holds no
\* analysis with the configured baseline id (or, without an id, name), the command
\* fails with 'Baseline analysis was not found' and offers nothing further.
C25_MissingBaselineFails ==
    (fe = "diff" /\ ed.analyses.def /\ BaselineMissing(ed.analyses.items)) =>
        (FailsBaselineNotFound /\ NothingOffered)

\* C25, amended: a non-empty analysis listing without the configured baseline fails
\* with 'Baseline analysis was not found'; an empty listing ends the command
\* without an error; in both cases there is no picker, no save dialog, no SARIF
\* fetch and no download.
C25_MissingBaselineNoDownload ==
    (fe = "diff" /\ ed.analyses.def /\ BaselineMissing(ed.analyses.items)) =>
        /\ NothingOffered
        /\ IF Len(ed.analyses.items) > 0 THEN FailsBaselineNotFound
           ELSE pc = "done" /\ thrown = NoError

\* The configured id is absent from a listing that holds the configured name.
C25_Witness ==
    /\ fe = "diff" /\ ed.analyses.def /\ BaselineMissing(ed.analyses.items)
    /\ CfgBaselineId # U /\ ~Falsy(CfgBaselineName)
    /\ \E i \in 1..Len(ed.analyses.items) : ed.analyses.items[i].name = CfgBaselineName
    /\ FailsBaselineNotFound


CfgProjectName == IF Falsy(cfg.name) THEN U ELSE cfg.name
ListingRequests == { i \in 1..Len(trace) : EvName(trace[i]) = "fetchProjectInfo" }
ListingArrivals == { i \in 1..Len(trace) : EvName(trace[i]) = "projectInfoArray" }
NthOf(S, n) == CHOOSE i \in S : Cardinality({ j \in S : j <= i }) = n
\* Every listing that was requested has arrived: the last one is the final one.
ListingsComplete ==
    /\ ListingArrivals # {}
    /\ Cardinality(ListingArrivals) = Cardinality(ListingRequests)
FinalListing == trace[NthOf(ListingArrivals, Cardinality(ListingArrivals))][2]
ProjectPickerShown ==
    \E j \in 1..Len(trace) : trace[j] = Ev2("showQuickPick", "Select a Project...")

\* C26: with a configured project id no project listing is requested; otherwise
\* the first listing is requested with the configured name as filter, and one
\* further listing, without a filter, exactly when the filtered one came back
\* empty; a final listing that is empty ends the command with no error, no
\* analysis request and no SARIF fetch; a final listing of one project selects it
\* without a picker.
C26_ProjectResolution ==
    Editor =>
      /\ cfg.id # U => ListingRequests = {}
      /\ Cardinality(ListingRequests) <= 2
      /\ ListingRequests # {} =>
           trace[NthOf(ListingRequests, 1)] = Ev2("fetchProjectInfo", CfgProjectName)
      /\ Cardinality(ListingRequests) = 2 =>
           /\ trace[NthOf(ListingRequests, 2)] = Ev2("fetchProjectInfo", U)
           /\ CfgProjectName # U
           /\ NthOf(ListingArrivals, 1) < NthOf(ListingRequests, 2)
           /\ trace[NthOf(ListingArrivals, 1)][2] = <<>>
      /\ (ListingArrivals # {} /\ CfgProjectName # U
            /\ trace[NthOf(ListingArrivals, 1)][2] = <<>>) =>
           Cardinality(ListingRequests) = 2
      /\ (ListingsComplete /\ FinalListing = <<>>) =>
           /\ pc = "done" /\ thrown = NoError
           /\ ~Happened("fetchAnalysisInfo") /\ ~SarifFetchIssued
      /\ (ListingsComplete /\ Len(FinalListing) = 1) =>
           /\ ~ProjectPickerShown
           /\ ed.projectInfo = FinalListing[1]
           /\ \E j \in 1..Len(trace) :
                trace[j] = Ev2("fetchAnalysisInfo", FinalListing[1].id)

\* The filtered listing came back empty and the unfiltered one held one project.
C26_Witness ==
    /\ Editor /\ Cardinality(ListingRequests) = 2 /\ ListingsComplete
    /\ Len(FinalListing) = 1 /\ pc = "analyses"

C26_WitnessEmpty ==
    Editor /\ Cardinality(ListingRequests) = 2 /\ ListingsComplete /\ FinalListing = <<>>

====
